---- MODULE Spec2Model ----
(***************************************************************************)
(* The email body renderer of matcha (package view, src/config/config.go  *)
(* lines 26-1160): terminal capability detection, the Kitty / iTerm2      *)
(* image encoders and the processBody pipeline; and the key handling of   *)
(* the compose screen (package tui, src/unnamed/part_004).                *)
(*                                                                         *)
(* Text is a sequence of string tokens.  A token is an opaque run of      *)
(* characters; "\n" and " " are always tokens of their own, so newline    *)
(* collapsing, line splitting and trimming work on them exactly as the    *)
(* code works on characters.  ESC and BEL stand for the bytes 0x1b, 0x07. *)
(***************************************************************************)
EXTENDS Integers, Sequences, FiniteSets, TLC

VARIABLES
    env,            \* the process environment (os.Getenv)
    pc,             \* position of the running call
    rawBody,        \* processBody argument: the raw body, as source items
    inline,         \* processBody argument: map cid -> base64 payload
    inlineNil,      \* TRUE when the map is nil (ProcessBody)
    inlineList,     \* ProcessBodyWithInline argument: []InlineImage
    disableImages,  \* processBody argument
    doc,            \* the goquery document (a forest of nodes)
    quoteData,      \* the quote records collected from blockquotes
    imgTodo,        \* the img selection still to be visited by Each
    text,           \* the extracted text being finalized
    result,         \* the returned string
    err,            \* the returned error ("" is nil)
    httpLog,        \* every HTTP GET issued, in order
    imgLog,         \* what was decided for each visited <img>
    stages,         \* the pipeline stages executed so far, in order
    payload,        \* renderInlineImage / encoder argument
    enc,            \* the encoder's result
    other,          \* the locals of a second processBody call, suspended
    composer,       \* the Composer model of the compose screen
    inbox,          \* the Inbox models on screen, by mailbox
    activeView,     \* TrashArchive.activeView ("" when no such screen)
    emailView,      \* the EmailView model
    fetch,          \* mainModel behind an Inbox: messages and fetches in flight
    scan            \* the line loop of styleQuotedReplies on its own

renderVars == <<rawBody, inline, inlineNil, inlineList, disableImages, doc,
                quoteData, imgTodo, text, result, err, httpLog, imgLog, stages>>
encodeVars == <<payload, enc>>
tuiVars == <<inbox, activeView, emailView, fetch>>
sideVars == <<other, composer, tuiVars, scan>>
vars == <<env, pc, renderVars, encodeVars, sideVars>>

-----------------------------------------------------------------------------
(* Bounds of the model.                                                    *)

\* Top-level items of a raw body.
MaxItems == 1
\* Environment variables that differ from the cleared baseline
\* (TERM=xterm, TERM_PROGRAM=basic, everything else unset).
MaxEnvVars == 2
\* Largest payload of the encoder runs, in chunks of chunkSize.
MaxChunks == 3
\* Accounts configured for the compose screen.
MaxAccounts == 2
\* Contacts a search of the address book returns.
MaxContacts == 1
\* Characters typed into the inputs of the compose screen, in all.
MaxTyped == 2
\* Emails a mailbox screen holds.
MaxEmails == 2
\* Attachments of the email an email view shows.
MaxAttachments == 2
\* Lines by which the body of that email is longer than the window.
MaxScroll == 2
\* Lines of the text given to the plain-text quote pass.
MaxLines == 4
\* Entries of the inline-image list given to the lookup.
MaxEntries == 2
\* Longest text of newlines and words given to the collapse.
MaxRunText == 8
\* Longest text with placeholder tokens given to the text rewrites.
MaxText == 4

-----------------------------------------------------------------------------
(* Token sequences: the strings package as used by the renderer.          *)

Min(a, b) == IF a < b THEN a ELSE b

SeqToSet(s) == {s[i] : i \in 1..Len(s)}

RECURSIVE Cat(_)
Cat(ss) == IF ss = <<>> THEN <<>> ELSE Head(ss) \o Cat(Tail(ss))

RECURSIVE ConcatStr(_)
ConcatStr(s) == IF s = <<>> THEN "" ELSE Head(s) \o ConcatStr(Tail(s))

RECURSIVE Repeat(_, _)
Repeat(tok, n) == IF n <= 0 THEN <<>> ELSE <<tok>> \o Repeat(tok, n - 1)

\* strings.HasPrefix on tokens
HasPrefix(s, p) == Len(s) >= Len(p) /\ SubSeq(s, 1, Len(p)) = p

\* strings.TrimPrefix / strings.TrimSuffix
TrimPrefix(s, p) == IF HasPrefix(s, p) THEN SubSeq(s, Len(p) + 1, Len(s)) ELSE s
TrimSuffix(s, p) ==
    IF Len(s) >= Len(p) /\ SubSeq(s, Len(s) - Len(p) + 1, Len(s)) = p
    THEN SubSeq(s, 1, Len(s) - Len(p)) ELSE s

\* strings.Contains
Contains(s, p) ==
    \E i \in 1..(Len(s) - Len(p) + 1) : SubSeq(s, i, i + Len(p) - 1) = p

\* strings.Count (non-overlapping patterns of the model never overlap)
Count(s, p) ==
    Cardinality({i \in 1..(Len(s) - Len(p) + 1) : SubSeq(s, i, i + Len(p) - 1) = p})

\* strings.Index of a token, 0 when absent
IndexOf(s, tok) ==
    IF \E i \in 1..Len(s) : s[i] = tok
    THEN CHOOSE i \in 1..Len(s) : s[i] = tok /\ \A j \in 1..(i - 1) : s[j] # tok
    ELSE 0

WhiteSpace == {" ", "\n", "\t", "\r"}

\* strings.Trim(s, cutset)
RECURSIVE TrimLeft(_, _)
TrimLeft(s, cut) ==
    IF s # <<>> /\ Head(s) \in cut THEN TrimLeft(Tail(s), cut) ELSE s
RECURSIVE TrimRight(_, _)
TrimRight(s, cut) ==
    IF s # <<>> /\ s[Len(s)] \in cut THEN TrimRight(SubSeq(s, 1, Len(s) - 1), cut) ELSE s
Trim(s, cut) == TrimRight(TrimLeft(s, cut), cut)
TrimSpace(s) == Trim(s, WhiteSpace)

\* strings.Split(s, "\n"): always at least one line
RECURSIVE Split(_)
Split(s) ==
    LET i == IndexOf(s, "\n")
    IN  IF i = 0 THEN <<s>>
        ELSE <<SubSeq(s, 1, i - 1)>> \o Split(SubSeq(s, i + 1, Len(s)))

\* strings.Join(lines, "\n")
RECURSIVE Join(_)
Join(ls) ==
    IF ls = <<>> THEN <<>>
    ELSE IF Len(ls) = 1 THEN ls[1]
    ELSE ls[1] \o <<"\n">> \o Join(Tail(ls))

-----------------------------------------------------------------------------
(* The process environment.                                                *)

FlagVars ==
    {"VTE_VERSION", "KITTY_WINDOW_ID", "GHOSTTY_RESOURCES_DIR",
     "WEZTERM_EXECUTABLE", "WEZTERM_CONFIG_FILE", "ITERM_SESSION_ID",
     "ITERM_PROFILE", "WARP_IS_LOCAL_SHELL_SESSION",
     "WARP_COMBINED_PROMPT_COMMAND_FINISHED", "KONSOLE_DBUS_SESSION",
     "KONSOLE_VERSION"}

TermValues ==
    {"xterm", "xterm-kitty", "xterm-ghostty", "wezterm", "wayst", "tmux-256color"}

TermProgramValues ==
    {"basic", "ghostty", "iTerm.app", "WezTerm", "wayst", "warp", "konsole", "vscode"}

\* os.Getenv: TERM and TERM_PROGRAM carry a value, a variable of FlagVars
\* is either unset ("") or set to some non-empty value.
Getenv(name) ==
    CASE name = "TERM" -> env.TERM
      [] name = "TERM_PROGRAM" -> env.TERM_PROGRAM
      [] OTHER -> IF name \in env.set THEN "1" ELSE ""

\* strings.ToLower on the values of the model
ToLower(s) ==
    CASE s = "iTerm.app" -> "iterm.app"
      [] s = "WezTerm" -> "wezterm"
      [] OTHER -> s

\* strings.Contains(s, sub) on the values of the model
StrContains(s, sub) ==
    \/ s = sub
    \/ s = "xterm-kitty" /\ sub = "kitty"
    \/ s = "xterm-ghostty" /\ sub = "ghostty"
    \/ s = "tmux-256color" /\ sub = "tmux"

Deviation(e) ==
    (IF e.TERM = "xterm" THEN 0 ELSE 1)
    + (IF e.TERM_PROGRAM = "basic" THEN 0 ELSE 1)
    + Cardinality(e.set)

Envs ==
    {e \in [TERM : TermValues, TERM_PROGRAM : TermProgramValues,
            set : {S \in SUBSET FlagVars : Cardinality(S) <= MaxEnvVars}] :
        Deviation(e) <= MaxEnvVars}

-----------------------------------------------------------------------------
(* Capability detection.                                                   *)

\* Mutant of hyperlinkSupported: any terminal that sets TERM counts.
hyperlinkSupportedAnyTerm ==
    LET term == ToLower(Getenv("TERM"))
        termProgram == ToLower(Getenv("TERM_PROGRAM"))
    IN  \/ term # ""
        \/ \E s \in {"iterm.app", "hyper", "vscode", "ghostty", "wezterm"} :
              StrContains(termProgram, s)
        \/ Getenv("VTE_VERSION") # ""
        \/ Getenv("KITTY_WINDOW_ID") # ""
        \/ Getenv("GHOSTTY_RESOURCES_DIR") # ""
        \/ Getenv("WEZTERM_EXECUTABLE") # ""

hyperlinkSupported ==
    LET term == ToLower(Getenv("TERM"))
        termProgram == ToLower(Getenv("TERM_PROGRAM"))
    IN  \/ \E s \in {"kitty", "ghostty", "wezterm", "alacritty", "foot", "tmux", "screen"} :
              StrContains(term, s)
        \/ \E s \in {"iterm.app", "hyper", "vscode", "ghostty", "wezterm"} :
              StrContains(termProgram, s)
        \/ Getenv("VTE_VERSION") # ""
        \/ Getenv("KITTY_WINDOW_ID") # ""
        \/ Getenv("GHOSTTY_RESOURCES_DIR") # ""
        \/ Getenv("WEZTERM_EXECUTABLE") # ""

kittySupported ==
    \/ StrContains(ToLower(Getenv("TERM")), "kitty")
    \/ Getenv("KITTY_WINDOW_ID") # ""

ghosttySupported ==
    \/ StrContains(ToLower(Getenv("TERM")), "ghostty")
    \/ Getenv("TERM_PROGRAM") = "ghostty"
    \/ Getenv("GHOSTTY_RESOURCES_DIR") # ""

iterm2Supported ==
    \/ ToLower(Getenv("TERM_PROGRAM")) = "iterm.app"
    \/ Getenv("ITERM_SESSION_ID") # ""
    \/ Getenv("ITERM_PROFILE") # ""

weztermSupported ==
    \/ Getenv("WEZTERM_EXECUTABLE") # ""
    \/ Getenv("WEZTERM_CONFIG_FILE") # ""
    \/ ToLower(Getenv("TERM_PROGRAM")) = "wezterm"
    \/ StrContains(ToLower(Getenv("TERM")), "wezterm")

waystSupported ==
    \/ StrContains(ToLower(Getenv("TERM")), "wayst")
    \/ ToLower(Getenv("TERM_PROGRAM")) = "wayst"

warpSupported ==
    \/ ToLower(Getenv("TERM_PROGRAM")) = "warp"
    \/ Getenv("WARP_IS_LOCAL_SHELL_SESSION") # ""
    \/ Getenv("WARP_COMBINED_PROMPT_COMMAND_FINISHED") # ""

konsoleSupported ==
    \/ Getenv("KONSOLE_DBUS_SESSION") # ""
    \/ Getenv("KONSOLE_VERSION") # ""
    \/ ToLower(Getenv("TERM_PROGRAM")) = "konsole"

imageProtocolSupported ==
    kittySupported \/ ghosttySupported \/ iterm2Supported
        \/ weztermSupported \/ waystSupported \/ warpSupported \/ konsoleSupported

-----------------------------------------------------------------------------
(* Base64 payloads.  A payload is named by a string; "" is the empty      *)
(* payload.  Its bytes are addressed by position, so payload[off:end] is  *)
(* the token Slice(p, off, end) and a payload is known by its length,     *)
(* whether it decodes as an image, and the image's pixel height.          *)

chunkSize == 4096
defaultCellHeight == 18

PayloadKinds ==
    {[k |-> "png1", img |-> TRUE, h |-> 1],
     [k |-> "png37", img |-> TRUE, h |-> 37],
     [k |-> "notimg", img |-> FALSE, h |-> 0]}

PayloadLens ==
    {1, 96} \cup {k * chunkSize + d : k \in 1..MaxChunks, d \in {-1, 0, 1}}

PayId(kind, n) == kind \o "#" \o ToString(n)

PayloadTable ==
    {[id |-> PayId(kd.k, n), len |-> n, img |-> kd.img, h |-> kd.h] :
        kd \in PayloadKinds, n \in PayloadLens}

Payloads == {r.id : r \in PayloadTable}

PayInfo(p) == CHOOSE r \in PayloadTable : r.id = p
\* len(payload)
PayLen(p) == IF p = "" THEN 0 ELSE PayInfo(p).len

\* payload[off:end]
Slice(p, off, end) == p \o "[" \o ToString(off) \o ":" \o ToString(end) \o "]"

\* The payloads bodies and inline images of the render runs refer to.
SmallPng == PayId("png1", 96)
BigPng == PayId("png37", chunkSize + 1)
NotImage == PayId("notimg", 96)

-----------------------------------------------------------------------------
(* Terminal cell height (TIOCGWINSZ on stdout, stdin, stderr, /dev/tty).   *)

WsErr == [err |-> TRUE, Row |-> 0, Ypixel |-> 0]
WsNoPixels == [err |-> FALSE, Row |-> 24, Ypixel |-> 0]
WsTiny == [err |-> FALSE, Row |-> 50, Ypixel |-> 40]
Ws20 == [err |-> FALSE, Row |-> 24, Ypixel |-> 480]
Ws9 == [err |-> FALSE, Row |-> 40, Ypixel |-> 360]

Winsizes == {WsErr, WsNoPixels, WsTiny, Ws20, Ws9}

\* What the four descriptors answer, in the order they are tried; the
\* fourth is /dev/tty, whose open failure reads as an ioctl failure.
TtyStates == [1..4 -> Winsizes]

TtyFew ==
    {<<WsErr, WsErr, WsErr, WsErr>>,
     <<WsNoPixels, WsNoPixels, WsNoPixels, Ws20>>,
     <<Ws9, Ws20, WsErr, WsErr>>}

getCellHeightFromFd(ws) ==
    IF ws.err THEN 0
    ELSE IF ws.Row > 0 /\ ws.Ypixel > 0 /\ ws.Ypixel \div ws.Row > 0
         THEN ws.Ypixel \div ws.Row
         ELSE 0

getTerminalCellSize(tty) ==
    IF \E i \in 1..4 : getCellHeightFromFd(tty[i]) > 0
    THEN getCellHeightFromFd(
             tty[CHOOSE i \in 1..4 :
                    /\ getCellHeightFromFd(tty[i]) > 0
                    /\ \A j \in 1..(i - 1) : getCellHeightFromFd(tty[j]) = 0])
    ELSE defaultCellHeight

-----------------------------------------------------------------------------
(* The image encoders.                                                     *)

imageRowPlaceholderPrefix == "[[MATCHA_IMG_ROWS:"
imageRowPlaceholderSuffix == "]]"

KittyFirst == "ESC_Gf=100,a=T,q=2,C=1,m="
KittyNext == "ESC_Gm="
KittyEnd == "ESC\\"
Iterm2Start == "ESC]1337;File=inline=1:"
BEL == "BEL"

\* Mutant of ImageRows: the division rounds down.
ImageRowsFloor(p, tty) ==
    IF PayInfo(p).img
    THEN LET rows == PayInfo(p).h \div getTerminalCellSize(tty)
         IN  IF rows < 1 THEN 1 ELSE rows
    ELSE 1

\* rows := 1; if the payload decodes as an image,
\* rows = (h + cellHeight - 1) / cellHeight, at least 1
ImageRows(p, tty) ==
    IF PayInfo(p).img
    THEN LET cellHeight == getTerminalCellSize(tty)
             rows == (PayInfo(p).h + cellHeight - 1) \div cellHeight
         IN  IF rows < 1 THEN 1 ELSE rows
    ELSE 1

\* Mutant of KittyChunks: the end of a chunk is not clamped to len(payload).
RECURSIVE KittyChunksNoClamp(_, _)
KittyChunksNoClamp(p, offset) ==
    IF offset >= PayLen(p) THEN <<>>
    ELSE LET end == offset + chunkSize
         IN  <<[off |-> offset, end |-> end,
                more |-> IF end < PayLen(p) THEN "1" ELSE "0"]>>
             \o KittyChunksNoClamp(p, offset + chunkSize)

\* The chunk loop: for offset := 0; offset < len(payload); offset += chunkSize
RECURSIVE KittyChunks(_, _)
KittyChunks(p, offset) ==
    IF offset >= PayLen(p) THEN <<>>
    ELSE LET end == Min(offset + chunkSize, PayLen(p))
         IN  <<[off |-> offset, end |-> end,
                more |-> IF end < PayLen(p) THEN "1" ELSE "0"]>>
             \o KittyChunks(p, offset + chunkSize)

\* Mutant of KittyChunkTokens: every chunk repeats the display directives.
KittyChunkTokensAllFirst(p, c) ==
    <<KittyFirst, c.more, ";", Slice(p, c.off, c.end), KittyEnd>>

\* one escape-framed chunk
KittyChunkTokens(p, c) ==
    IF c.off = 0
    THEN <<KittyFirst, c.more, ";", Slice(p, c.off, c.end), KittyEnd>>
    ELSE <<KittyNext, c.more, ";", Slice(p, c.off, c.end), KittyEnd>>

RowPlaceholder(rows) ==
    <<imageRowPlaceholderPrefix, ToString(rows), imageRowPlaceholderSuffix>>

kittyInlineImage(p, tty) ==
    IF p = "" THEN <<>>
    ELSE LET cs == KittyChunks(p, 0)
         IN  Cat([i \in 1..Len(cs) |-> KittyChunkTokens(p, cs[i])])
             \o <<"\n">> \o RowPlaceholder(ImageRows(p, tty)) \o <<"\n">>

iterm2InlineImage(p, tty) ==
    IF p = "" THEN <<>>
    ELSE <<Iterm2Start, p, BEL, "\n">>
         \o RowPlaceholder(ImageRows(p, tty)) \o <<"\n">>

\* Mutant of renderInlineImage: Konsole is left out of the Kitty family.
renderInlineImageNoKonsole(p, tty) ==
    IF p = "" THEN <<>>
    ELSE IF kittySupported \/ ghosttySupported \/ weztermSupported
               \/ waystSupported
         THEN kittyInlineImage(p, tty)
    ELSE IF iterm2Supported \/ warpSupported
         THEN iterm2InlineImage(p, tty)
    ELSE <<>>

\* Mutant of renderInlineImage: the iTerm2 family is tested first.
renderInlineImageItermFirst(p, tty) ==
    IF p = "" THEN <<>>
    ELSE IF iterm2Supported \/ warpSupported
         THEN iterm2InlineImage(p, tty)
    ELSE IF kittySupported \/ ghosttySupported \/ weztermSupported
               \/ waystSupported \/ konsoleSupported
         THEN kittyInlineImage(p, tty)
    ELSE <<>>

renderInlineImage(p, tty) ==
    IF p = "" THEN <<>>
    ELSE IF kittySupported \/ ghosttySupported \/ weztermSupported
               \/ waystSupported \/ konsoleSupported
         THEN kittyInlineImage(p, tty)
    ELSE IF iterm2Supported \/ warpSupported
         THEN iterm2InlineImage(p, tty)
    ELSE <<>>

\* The decimal tokens the model can meet, and fmt.Sscanf(numStr, "%d", &n):
\* -1 stands for "not a number of the model".
MaxNum == 64
NumOf(tok) ==
    IF \E n \in 0..MaxNum : ToString(n) = tok
    THEN CHOOSE n \in 0..MaxNum : ToString(n) = tok
    ELSE -1
\* a run of digits too long for an int
HugeNum == "99999999999999999999"
\* the regexp class \d+
IsDigits(tok) == NumOf(tok) >= 0 \/ tok = HugeNum
\* fmt.Sscanf(tok, "%d", &n) on a run of digits, n holding init before the
\* call: on overflow an error, and n is left as it was
Sscanf(tok, init) ==
    IF tok = HugeNum THEN [err |-> TRUE, n |-> init]
    ELSE [err |-> FALSE, n |-> NumOf(tok)]

\* Mutant of expandImageRowPlaceholders: a count below 1 is not raised to 1.
RECURSIVE expandImageRowPlaceholdersNoFloor(_)
expandImageRowPlaceholdersNoFloor(t) ==
    IF t = <<>> THEN <<>>
    ELSE IF /\ Len(t) >= 3
            /\ t[1] = imageRowPlaceholderPrefix
            /\ IsDigits(t[2])
            /\ t[3] = imageRowPlaceholderSuffix
         THEN Repeat("\n", Sscanf(t[2], 1).n)
              \o expandImageRowPlaceholdersNoFloor(SubSeq(t, 4, Len(t)))
         ELSE <<Head(t)>> \o expandImageRowPlaceholdersNoFloor(Tail(t))

\* expandImageRowPlaceholders: every prefix, digits, suffix becomes
\* strings.Repeat("\n", rows), rows < 1 counted as 1
RECURSIVE expandImageRowPlaceholders(_)
expandImageRowPlaceholders(t) ==
    IF t = <<>> THEN <<>>
    ELSE IF /\ Len(t) >= 3
            /\ t[1] = imageRowPlaceholderPrefix
            /\ IsDigits(t[2])
            /\ t[3] = imageRowPlaceholderSuffix
         THEN LET r == Sscanf(t[2], 1)
              IN  Repeat("\n", IF r.err \/ r.n < 1 THEN 1 ELSE r.n)
                  \o expandImageRowPlaceholders(SubSeq(t, 4, Len(t)))
         ELSE <<Head(t)>> \o expandImageRowPlaceholders(Tail(t))

-----------------------------------------------------------------------------
(* The document: a forest of nodes in document order.  Elements carry a   *)
(* unique id; text nodes have id 0.  url is the href, src or cite          *)
(* attribute (hasUrl: the attribute exists), alt the alt attribute.        *)

Node(id, tag, toks, url, hasUrl, alt, kids) ==
    [id |-> id, tag |-> tag, toks |-> toks, url |-> url, hasUrl |-> hasUrl,
     alt |-> alt, kids |-> kids]

Txt(toks) == Node(0, "#text", toks, <<>>, FALSE, <<>>, <<>>)
El(id, tag, kids) == Node(id, tag, <<>>, <<>>, FALSE, <<>>, kids)
A(id, href, kids) == Node(id, "a", <<>>, href, TRUE, <<>>, kids)
Img(id, src, alt) == Node(id, "img", <<>>, src, TRUE, alt, <<>>)

\* goquery Selection.Text(): the text nodes of the subtree, concatenated
RECURSIVE ForestText(_)
ForestText(f) ==
    IF f = <<>> THEN <<>>
    ELSE (IF Head(f).tag = "#text" THEN Head(f).toks ELSE ForestText(Head(f).kids))
         \o ForestText(Tail(f))

NodeText(n) == ForestText(<<n>>)

\* the nodes of a forest in document order
RECURSIVE Flatten(_)
Flatten(f) ==
    IF f = <<>> THEN <<>>
    ELSE <<Head(f)>> \o Flatten(Head(f).kids) \o Flatten(Tail(f))

\* doc.Find(selector): the ids of the matching elements, in document order
Find(f, tags) ==
    LET sel == SelectSeq(Flatten(f), LAMBDA n : n.tag \in tags)
    IN  [i \in 1..Len(sel) |-> sel[i].id]

HasNode(f, id) == \E i \in 1..Len(Flatten(f)) : Flatten(f)[i].id = id
NodeOf(f, id) ==
    LET fl == Flatten(f) IN fl[CHOOSE i \in 1..Len(fl) : fl[i].id = id]

\* the element with this id replaced by the nodes repl (Remove: repl = <<>>)
RECURSIVE ReplaceNode(_, _, _)
ReplaceNode(f, id, repl) ==
    IF f = <<>> THEN <<>>
    ELSE (IF Head(f).id = id THEN repl
          ELSE <<[Head(f) EXCEPT !.kids = ReplaceNode(Head(f).kids, id, repl)]>>)
         \o ReplaceNode(Tail(f), id, repl)

\* Selection.After: nodes inserted right after the element
RECURSIVE InsertAfter(_, _, _)
InsertAfter(f, id, nodes) ==
    IF f = <<>> THEN <<>>
    ELSE <<[Head(f) EXCEPT !.kids = InsertAfter(Head(f).kids, id, nodes)]>>
         \o (IF Head(f).id = id THEN nodes ELSE <<>>)
         \o InsertAfter(Tail(f), id, nodes)

\* Selection.Prev(): the previous sibling that is an element, if any
RECURSIVE PrevOf(_, _)
PrevOf(f, id) ==
    IF \E i \in 1..Len(f) : f[i].id = id
    THEN LET i == CHOOSE k \in 1..Len(f) : f[k].id = id
             before == {j \in 1..(i - 1) : f[j].tag # "#text"}
         IN  IF before = {} THEN <<>>
             ELSE <<f[CHOOSE j \in before : \A k \in before : k <= j]>>
    ELSE Cat([i \in 1..Len(f) |-> PrevOf(f[i].kids, id)])

\* attribute and text tokens of every node mapped by F
RECURSIVE MapTokens(_, _)
MapTokens(F(_), f) ==
    [i \in 1..Len(f) |->
        [f[i] EXCEPT !.toks = F(f[i].toks), !.url = F(f[i].url),
                     !.alt = F(f[i].alt), !.kids = MapTokens(F, f[i].kids)]]

FoldSeq(Op(_, _), acc, s) ==
    LET F[i \in 0..Len(s)] == IF i = 0 THEN acc ELSE Op(F[i - 1], s[i])
    IN  F[Len(s)]

-----------------------------------------------------------------------------
(* Normalizer: quoted-printable, Markdown, HTML parsing.                   *)

\* A byte the quoted-printable reader rejects (below ' ', not \t \r \n).
CtrlByte == "^A"

QPDecodeTokens(t) ==
    Cat([i \in 1..Len(t) |->
            CASE t[i] = "=2C" -> <<",">>
              [] t[i] = "=21" -> <<"!">>
              [] t[i] = "=\r\n" -> <<>>
              [] OTHER -> <<t[i]>>])

QPInvalid(f) ==
    \E i \in 1..Len(Flatten(f)) :
        LET n == Flatten(f)[i]
        IN  \E j \in 1..Len(n.toks \o n.url \o n.alt) :
                (n.toks \o n.url \o n.alt)[j] = CtrlByte

\* decodeQuotedPrintable: [ok, body]
decodeQuotedPrintable(body) ==
    IF QPInvalid(body) THEN [ok |-> FALSE, body |-> <<>>]
    ELSE [ok |-> TRUE, body |-> MapTokens(QPDecodeTokens, body)]

InlineTags == {"#text", "a", "img", "br"}

\* goldmark on one top-level item: text becomes a paragraph, "# X" a
\* heading, inline HTML is wrapped in a paragraph, an HTML block is kept.
MarkdownItem(n) ==
    CASE n.tag = "md:p" -> <<El(n.id, "p", <<Txt(n.toks)>>), Txt(<<"\n">>)>>
      [] n.tag = "md:h1" -> <<El(n.id, "h1", <<Txt(Tail(n.toks))>>), Txt(<<"\n">>)>>
      [] n.tag \in InlineTags -> <<El(n.id + 50, "p", <<n>>), Txt(<<"\n">>)>>
      [] OTHER -> <<n>>

\* markdownToHTML; when Convert fails the input is returned unchanged
markdownToHTML(md, convertOK) ==
    IF convertOK THEN Cat([i \in 1..Len(md) |-> MarkdownItem(md[i])]) ELSE md

\* html character references in text
Unescape(t) ==
    [i \in 1..Len(t) |->
        CASE t[i] = "&lt;" -> "<"
          [] t[i] = "&gt;" -> ">"
          [] t[i] = "&amp;" -> "&"
          [] OTHER -> t[i]]

\* the HTML parser: text that is not an element is a text node
RECURSIVE ParseHTML(_)
ParseHTML(f) ==
    [i \in 1..Len(f) |->
        IF f[i].tag \in {"md:p", "md:h1", "#text"}
        THEN Txt(Unescape(f[i].toks))
        ELSE [f[i] EXCEPT !.url = Unescape(f[i].url), !.alt = Unescape(f[i].alt),
                          !.kids = ParseHTML(f[i].kids)]]

\* Selection.ReplaceWithHtml: the element replaced by the parsed markup
ReplaceWithHtml(f, id, html) == ReplaceNode(f, id, <<Txt(Unescape(html))>>)

\* lipgloss Style.Render: styling wrapped around the text
StyleRender(style, t) == <<"ESC[" \o style \o "m">> \o t \o <<"ESC[0m">>

-----------------------------------------------------------------------------
(* Transformer, steps 1 to 3: style/script, headers, spacing, br.          *)

RemoveStyleScript(f) ==
    FoldSeq(LAMBDA d, id : ReplaceNode(d, id, <<>>), f, Find(f, {"style", "script"}))

\* s.SetText(style.Render(s.Text()))
StyleHeader(f, tag, style) ==
    FoldSeq(LAMBDA d, id :
                IF HasNode(d, id)
                THEN ReplaceNode(d, id,
                        <<[NodeOf(d, id) EXCEPT
                              !.kids = <<Txt(StyleRender(style, NodeText(NodeOf(d, id))))>>]>>)
                ELSE d,
            f, Find(f, {tag}))

AddSpacing(f) ==
    FoldSeq(LAMBDA d, id : InsertAfter(d, id, <<Txt(<<"\n", "\n">>)>>),
            f, Find(f, {"p", "div", "h1", "h2"}))

ReplaceBr(f) ==
    FoldSeq(LAMBDA d, id : ReplaceWithHtml(d, id, <<"\n">>), f, Find(f, {"br"}))

-----------------------------------------------------------------------------
(* Quote headers and quote boxes.                                          *)

NoNewline(t, a, b) == \A x \in a..b : t[x] # "\n"

\* The regexp On\s+(.+?),\s+(.+?)\s+wrote: on tokens: "On ", a date, ", ",
\* a sender, " wrote:"; the groups are lazy and never cross a newline.
\* anchored is the ^...$ form of styleQuotedReplies.
OnWroteMatch(t, anchored) ==
    LET P == {m \in (1..Len(t)) \X (1..Len(t)) \X (1..Len(t)) :
                /\ t[m[1]] = "On " /\ t[m[2]] = ", " /\ t[m[3]] = " wrote:"
                /\ m[2] >= m[1] + 2 /\ m[3] >= m[2] + 2
                /\ NoNewline(t, m[1] + 1, m[2] - 1)
                /\ NoNewline(t, m[2] + 1, m[3] - 1)
                /\ (anchored => m[1] = 1 /\ m[3] = Len(t))}
        Before(a, b) ==
            \/ a[1] < b[1]
            \/ a[1] = b[1] /\ a[2] < b[2]
            \/ a[1] = b[1] /\ a[2] = b[2] /\ a[3] <= b[3]
    IN  IF P = {} THEN [ok |-> FALSE, date |-> <<>>, from |-> <<>>, at |-> 0, end |-> 0]
        ELSE LET m == CHOOSE a \in P : \A b \in P : Before(a, b)
             IN  [ok |-> TRUE,
                  date |-> SubSeq(t, m[1] + 1, m[2] - 1),
                  from |-> SubSeq(t, m[2] + 1, m[3] - 1),
                  at |-> m[1], end |-> m[3]]

\* parseDateForDisplay: a date in one of the known layouts is reformatted
\* as 02:01:06 15:04, anything else is returned as it is
parseDateForDisplay(d) ==
    CASE d = <<"2006-01-02 15:04:05">> -> <<"02:01:06 15:04">>
      [] d = <<"Jan 2", ", ", "2006 at 3:04 PM">> -> <<"02:01:06 15:04">>
      [] d = <<"Mon", ", ", "02 Jan 2006 15:04:05 -0700">> -> <<"02:01:06 15:04">>
      [] OTHER -> d

BoxTop == "+--"
BoxBottom == "--+"
BoxLeft == "| "
BoxRight == " |"

\* renderQuoteBox: the header line, an empty line and the content inside
\* a border that frames every line
renderQuoteBox(from, date, lines) ==
    LET header ==
            IF from # <<>> /\ date # <<>>
            THEN StyleRender("quote", from \o <<"  ">> \o date)
            ELSE IF from # <<>> THEN StyleRender("quote", from)
            ELSE IF date # <<>> THEN StyleRender("quote", date)
            ELSE <<>>
        content == Join(lines)
        boxContent ==
            IF header # <<>> THEN header \o <<"\n", "\n">> \o content ELSE content
        bl == Split(boxContent)
    IN  Join(<<<<BoxTop>>>>
             \o [i \in 1..Len(bl) |-> <<BoxLeft>> \o bl[i] \o <<BoxRight>>]
             \o <<<<BoxBottom>>>>)

QuotePrefix == "[[MATCHA_QUOTE:"
QuoteSuffix == "]]"

-----------------------------------------------------------------------------
(* Transformer, step 4: blockquotes.                                       *)

\* One blockquote of doc.Find("blockquote").Each.  pool holds the subtrees
\* already detached from the document: a blockquote nested in a replaced
\* one is still visited.
BlockquoteStep(st, id) ==
    LET all == st.doc \o st.pool
        s == NodeOf(all, id)
        cite == IF s.hasUrl THEN s.url ELSE <<>>
        quoteText == TrimSpace(NodeText(s))
        prev == PrevOf(all, id)
        prevText == IF prev = <<>> THEN <<>> ELSE TrimSpace(NodeText(prev[1]))
        m1 == OnWroteMatch(prevText, FALSE)
        m2 == OnWroteMatch(cite, FALSE)
        from == IF m1.ok THEN m1.from ELSE IF m2.ok THEN m2.from ELSE <<>>
        date == IF m1.ok THEN parseDateForDisplay(m1.date)
                ELSE IF m2.ok THEN parseDateForDisplay(m2.date) ELSE <<>>
        d1 == IF m1.ok THEN ReplaceNode(st.doc, prev[1].id, <<>>) ELSE st.doc
        p1 == IF m1.ok THEN ReplaceNode(st.pool, prev[1].id, <<>>) ELSE st.pool
        placeholder ==
            <<"\n", QuotePrefix, ToString(Len(st.quotes)), QuoteSuffix, "\n">>
    IN  [doc |-> ReplaceWithHtml(d1, id, placeholder),
         pool |-> ReplaceWithHtml(p1, id, placeholder) \o <<s>>,
         quotes |-> Append(st.quotes,
                           [from |-> from, date |-> date, content |-> quoteText])]

ExtractBlockquotes(f) ==
    FoldSeq(BlockquoteStep, [doc |-> f, pool |-> <<>>, quotes |-> <<>>],
            Find(f, {"blockquote"}))

-----------------------------------------------------------------------------
(* Transformer, step 5: anchors.                                           *)

Osc8 == "ESC]8;;"

\* Mutant of hyperlink: the text is repeated even when it equals the URL.
hyperlinkAlwaysText(url, text0) ==
    LET t == IF text0 = <<>> THEN url ELSE text0
    IN  IF hyperlinkSupported
        THEN <<Osc8>> \o url \o <<BEL>> \o t \o <<Osc8, BEL>>
        ELSE t \o <<" ", "&lt;">> \o url \o <<"&gt;">>

hyperlink(url, text0) ==
    LET t == IF text0 = <<>> THEN url ELSE text0
    IN  IF hyperlinkSupported
        THEN <<Osc8>> \o url \o <<BEL>> \o t \o <<Osc8, BEL>>
        ELSE IF t = url THEN <<"&lt;">> \o url \o <<"&gt;">>
        ELSE t \o <<" ", "&lt;">> \o url \o <<"&gt;">>

RewriteAnchors(f) ==
    FoldSeq(LAMBDA d, id :
                IF ~NodeOf(d, id).hasUrl THEN d
                ELSE ReplaceWithHtml(d, id,
                        hyperlink(NodeOf(d, id).url, NodeText(NodeOf(d, id)))),
            f, Find(f, {"a"}))

-----------------------------------------------------------------------------
(* Transformer, step 6: images.                                            *)

InlineEntry(cid, b64) == [CID |-> cid, Base64 |-> b64]

\* ProcessBodyWithInline: the lookup keyed by the normalized content id
NormalizeCID(c) ==
    TrimPrefix(TrimSuffix(TrimPrefix(TrimSpace(c), <<"<">>), <<">">>), <<"cid:">>)

BuildInlineMap(list) ==
    FoldSeq(LAMBDA m, img :
                LET cid == NormalizeCID(img.CID)
                IN  IF cid = <<>> \/ img.Base64 = "" THEN m
                    ELSE [k \in (DOMAIN m) \cup {cid} |->
                             IF k = cid THEN img.Base64 ELSE m[k]],
            [k \in {} |-> ""], list)

\* inline[cid]: "" for a missing key
MapLookup(m, k) == IF k \in DOMAIN m THEN m[k] ELSE ""

\* What an HTTP GET and the decoding of its body can end in.
FetchOutcomes ==
    {"transport error", "status 404", "read error", "decode error",
     "png encode error", "ok"}

\* the PNG a successful fetch re-encodes to
RemotePng == SmallPng

IsRemote(url) == url # <<>> /\ url[1] \in {"http://", "https://"}

\* Mutant of fetchRemoteBase64: a failed fetch is tried a second time.
fetchRemoteBase64Retry(url, outcome) ==
    IF ~IsRemote(url) THEN [payload |-> "", requests |-> <<>>]
    ELSE [payload |-> IF outcome = "ok" THEN RemotePng ELSE "",
          requests |-> IF outcome = "ok" THEN <<url>> ELSE <<url, url>>]

\* fetchRemoteBase64: [payload, requests]
fetchRemoteBase64(url, outcome) ==
    IF ~IsRemote(url) THEN [payload |-> "", requests |-> <<>>]
    ELSE [payload |-> IF outcome = "ok" THEN RemotePng ELSE "",
          requests |-> <<url>>]

dataURIBase64(uri) ==
    IF uri = <<>> \/ uri[1] \notin {"data:", "data:image/"} THEN ""
    ELSE LET comma == IndexOf(uri, ",")
         IN  IF comma = 0 \/ comma + 1 > Len(uri) THEN ""
             ELSE ConcatStr(SubSeq(uri, comma + 1, Len(uri)))

NoAltText == "Does not contain alt text"

\* Mutant of ImageFallback: the plain form whatever the terminal supports.
ImageFallbackPlain(src, alt) ==
    <<"\n", " ", "[Image: ">> \o alt \o <<", ">> \o src \o <<"]", " ", "\n">>

\* the replacement of an <img> that is not rendered inline
ImageFallback(src, alt) ==
    IF hyperlinkSupported
    THEN hyperlink(src, <<"\n", " ", "[Click here to view image: ">> \o alt
                        \o <<"]", " ", "\n">>)
    ELSE <<"\n", " ", "[Image: ">> \o alt \o <<", ">> \o src \o <<"]", " ", "\n">>

\* Mutant of PayloadOf: the map is looked up under the untrimmed src.
PayloadOfUntrimmed(src, inl, inlNil, outcome) ==
    IF HasPrefix(src, <<"data:image/">>)
    THEN [payload |-> dataURIBase64(src), requests |-> <<>>, consulted |-> "data"]
    ELSE IF HasPrefix(src, <<"cid:">>)
    THEN [payload |-> IF inlNil THEN "" ELSE MapLookup(inl, src),
          requests |-> <<>>,
          consulted |-> IF inlNil THEN "none" ELSE "cid"]
    ELSE IF IsRemote(src)
    THEN [payload |-> fetchRemoteBase64(src, outcome).payload,
          requests |-> fetchRemoteBase64(src, outcome).requests,
          consulted |-> "remote"]
    ELSE [payload |-> "", requests |-> <<>>, consulted |-> "none"]

\* The payload of a src by its kind: data URI, cid: reference, remote URL.
\* [payload, requests, consulted]
PayloadOf(src, inl, inlNil, outcome) ==
    IF HasPrefix(src, <<"data:image/">>)
    THEN [payload |-> dataURIBase64(src), requests |-> <<>>, consulted |-> "data"]
    ELSE IF HasPrefix(src, <<"cid:">>)
    THEN [payload |-> IF inlNil THEN ""
                      ELSE MapLookup(inl, Trim(TrimPrefix(src, <<"cid:">>), {"<", ">"})),
          requests |-> <<>>,
          consulted |-> IF inlNil THEN "none" ELSE "cid"]
    ELSE IF IsRemote(src)
    THEN [payload |-> fetchRemoteBase64(src, outcome).payload,
          requests |-> fetchRemoteBase64(src, outcome).requests,
          consulted |-> "remote"]
    ELSE [payload |-> "", requests |-> <<>>, consulted |-> "none"]

\* Mutant of ResolvePayload: the payload is resolved although images are
\* disabled or no protocol is detected.
ResolvePayloadUngated(src, inl, inlNil, disabled, outcome) ==
    PayloadOf(src, inl, inlNil, outcome)

\* if !disableImages && imageProtocolSupported() { resolve } else { none }
ResolvePayload(src, inl, inlNil, disabled, outcome) ==
    IF disabled \/ ~imageProtocolSupported
    THEN [payload |-> "", requests |-> <<>>, consulted |-> "none"]
    ELSE PayloadOf(src, inl, inlNil, outcome)

\* One <img> of doc.Find("img").Each: [doc, requests, log]
ProcessImg(f, id, inl, inlNil, disabled, outcome, tty) ==
    LET s == NodeOf(f, id)
        src == s.url
        alt == IF s.alt = <<>> THEN <<NoAltText>> ELSE s.alt
        r == ResolvePayload(src, inl, inlNil, disabled, outcome)
        rendered == renderInlineImage(r.payload, tty)
    IN  IF ~s.hasUrl
        THEN [doc |-> f, requests |-> <<>>,
              log |-> [id |-> id, src |-> <<>>, alt |-> s.alt, shown |-> "no src",
                       payload |-> "", consulted |-> "none", outcome |-> "",
                       out |-> <<>>, cell |-> 0]]
        ELSE IF r.payload # "" /\ rendered # <<>>
        THEN [doc |-> ReplaceWithHtml(f, id, <<"\n">> \o rendered \o <<"\n">>),
              requests |-> r.requests,
              log |-> [id |-> id, src |-> src, alt |-> alt, shown |-> "inline",
                       payload |-> r.payload, consulted |-> r.consulted,
                       outcome |-> IF r.consulted = "remote" THEN outcome ELSE "",
                       out |-> rendered, cell |-> getTerminalCellSize(tty)]]
        ELSE [doc |-> ReplaceWithHtml(f, id, ImageFallback(src, alt)),
              requests |-> r.requests,
              log |-> [id |-> id, src |-> src, alt |-> alt, shown |-> "fallback",
                       payload |-> r.payload, consulted |-> r.consulted,
                       outcome |-> IF r.consulted = "remote" THEN outcome ELSE "",
                       out |-> Unescape(ImageFallback(src, alt)), cell |-> 0]]

-----------------------------------------------------------------------------
(* Finalizer.                                                              *)

RECURSIVE NewlineRun(_)
NewlineRun(t) ==
    IF t # <<>> /\ Head(t) = "\n" THEN 1 + NewlineRun(Tail(t)) ELSE 0

\* Mutant of CollapseNewlines: a long run is cut to one newline.
RECURSIVE CollapseNewlinesToOne(_)
CollapseNewlinesToOne(t) ==
    IF t = <<>> THEN <<>>
    ELSE LET n == NewlineRun(t)
         IN  IF n = 0 THEN <<Head(t)>> \o CollapseNewlinesToOne(Tail(t))
             ELSE (IF n >= 3 THEN <<"\n">> ELSE SubSeq(t, 1, n))
                  \o CollapseNewlinesToOne(SubSeq(t, n + 1, Len(t)))

\* regexp \n{3,} replaced by "\n\n"
RECURSIVE CollapseNewlines(_)
CollapseNewlines(t) ==
    IF t = <<>> THEN <<>>
    ELSE LET n == NewlineRun(t)
         IN  IF n = 0 THEN <<Head(t)>> \o CollapseNewlines(Tail(t))
             ELSE (IF n >= 3 THEN <<"\n", "\n">> ELSE SubSeq(t, 1, n))
                  \o CollapseNewlines(SubSeq(t, n + 1, Len(t)))

\* every [[MATCHA_QUOTE:n]] with n in range becomes the box of record n
RECURSIVE ResolveQuotePlaceholders(_, _)
ResolveQuotePlaceholders(t, quotes) ==
    IF t = <<>> THEN <<>>
    ELSE IF /\ Len(t) >= 3
            /\ t[1] = QuotePrefix /\ IsDigits(t[2]) /\ t[3] = QuoteSuffix
         THEN (IF Sscanf(t[2], 0).n < Len(quotes)
               THEN LET q == quotes[Sscanf(t[2], 0).n + 1]
                    IN  renderQuoteBox(q.from, q.date, Split(q.content))
               ELSE SubSeq(t, 1, 3))
              \o ResolveQuotePlaceholders(SubSeq(t, 4, Len(t)), quotes)
         ELSE <<Head(t)>> \o ResolveQuotePlaceholders(Tail(t), quotes)

QuoteScanInit ==
    [result |-> <<>>, quoteBlock |-> <<>>, quoteFrom |-> <<>>, quoteDate |-> <<>>,
     inQuote |-> FALSE]

\* Mutant of QuoteScanStep: the line that ends a block is emitted before the
\* box of the block.
QuoteScanStepLineFirst(st, lines, i) ==
    LET line == lines[i]
        trimmedLine == TrimSpace(line)
        m == OnWroteMatch(trimmedLine, TRUE)
        box == renderQuoteBox(st.quoteFrom, st.quoteDate, st.quoteBlock)
        nextQuoted ==
            i + 1 <= Len(lines) /\ HasPrefix(TrimSpace(lines[i + 1]), <<">">>)
    IN  IF m.ok
        THEN [result |-> IF st.inQuote /\ st.quoteBlock # <<>>
                         THEN Append(st.result, box) ELSE st.result,
              quoteBlock |-> IF st.inQuote /\ st.quoteBlock # <<>>
                             THEN <<>> ELSE st.quoteBlock,
              quoteFrom |-> m.from,
              quoteDate |-> parseDateForDisplay(m.date),
              inQuote |-> TRUE]
        ELSE IF HasPrefix(trimmedLine, <<">">>)
        THEN [result |-> st.result,
              quoteBlock |-> Append(st.quoteBlock,
                                TrimPrefix(TrimPrefix(trimmedLine, <<">">>), <<" ">>)),
              quoteFrom |-> IF st.inQuote THEN st.quoteFrom ELSE <<>>,
              quoteDate |-> IF st.inQuote THEN st.quoteDate ELSE <<>>,
              inQuote |-> TRUE]
        ELSE IF st.inQuote
        THEN IF trimmedLine = <<>> /\ nextQuoted
             THEN [st EXCEPT !.quoteBlock = Append(st.quoteBlock, <<>>)]
             ELSE IF trimmedLine = <<>> /\ st.quoteBlock = <<>>
             THEN st
             ELSE [result |-> Append(st.result, line)
                              \o (IF st.quoteBlock # <<>> THEN <<box>> ELSE <<>>),
                   quoteBlock |-> <<>>, quoteFrom |-> <<>>, quoteDate |-> <<>>,
                   inQuote |-> FALSE]
        ELSE [st EXCEPT !.result = Append(st.result, line)]

\* Mutant of QuoteScanStep: a blank line between quoted lines ends the block.
QuoteScanStepDropsBlank(st, lines, i) ==
    LET line == lines[i]
        trimmedLine == TrimSpace(line)
        m == OnWroteMatch(trimmedLine, TRUE)
        box == renderQuoteBox(st.quoteFrom, st.quoteDate, st.quoteBlock)
        nextQuoted ==
            i + 1 <= Len(lines) /\ HasPrefix(TrimSpace(lines[i + 1]), <<">">>)
    IN  IF m.ok
        THEN [result |-> IF st.inQuote /\ st.quoteBlock # <<>>
                         THEN Append(st.result, box) ELSE st.result,
              quoteBlock |-> IF st.inQuote /\ st.quoteBlock # <<>>
                             THEN <<>> ELSE st.quoteBlock,
              quoteFrom |-> m.from,
              quoteDate |-> parseDateForDisplay(m.date),
              inQuote |-> TRUE]
        ELSE IF HasPrefix(trimmedLine, <<">">>)
        THEN [result |-> st.result,
              quoteBlock |-> Append(st.quoteBlock,
                                TrimPrefix(TrimPrefix(trimmedLine, <<">">>), <<" ">>)),
              quoteFrom |-> IF st.inQuote THEN st.quoteFrom ELSE <<>>,
              quoteDate |-> IF st.inQuote THEN st.quoteDate ELSE <<>>,
              inQuote |-> TRUE]
        ELSE IF st.inQuote
        THEN IF trimmedLine = <<>> /\ st.quoteBlock = <<>>
             THEN st
             ELSE [result |-> (IF st.quoteBlock # <<>>
                               THEN Append(st.result, box) ELSE st.result)
                              \o <<line>>,
                   quoteBlock |-> <<>>, quoteFrom |-> <<>>, quoteDate |-> <<>>,
                   inQuote |-> FALSE]
        ELSE [st EXCEPT !.result = Append(st.result, line)]

\* Mutant of QuoteScanStep: sender and date are kept when a block ends and
\* when a quoted line opens one.
QuoteScanStepKeepsSender(st, lines, i) ==
    LET line == lines[i]
        trimmedLine == TrimSpace(line)
        m == OnWroteMatch(trimmedLine, TRUE)
        box == renderQuoteBox(st.quoteFrom, st.quoteDate, st.quoteBlock)
        nextQuoted ==
            i + 1 <= Len(lines) /\ HasPrefix(TrimSpace(lines[i + 1]), <<">">>)
    IN  IF m.ok
        THEN [result |-> IF st.inQuote /\ st.quoteBlock # <<>>
                         THEN Append(st.result, box) ELSE st.result,
              quoteBlock |-> IF st.inQuote /\ st.quoteBlock # <<>>
                             THEN <<>> ELSE st.quoteBlock,
              quoteFrom |-> m.from,
              quoteDate |-> parseDateForDisplay(m.date),
              inQuote |-> TRUE]
        ELSE IF HasPrefix(trimmedLine, <<">">>)
        THEN [result |-> st.result,
              quoteBlock |-> Append(st.quoteBlock,
                                TrimPrefix(TrimPrefix(trimmedLine, <<">">>), <<" ">>)),
              quoteFrom |-> st.quoteFrom,
              quoteDate |-> st.quoteDate,
              inQuote |-> TRUE]
        ELSE IF st.inQuote
        THEN IF trimmedLine = <<>> /\ nextQuoted
             THEN [st EXCEPT !.quoteBlock = Append(st.quoteBlock, <<>>)]
             ELSE IF trimmedLine = <<>> /\ st.quoteBlock = <<>>
             THEN st
             ELSE [result |-> (IF st.quoteBlock # <<>>
                               THEN Append(st.result, box) ELSE st.result)
                              \o <<line>>,
                   quoteBlock |-> <<>>, quoteFrom |-> st.quoteFrom,
                   quoteDate |-> st.quoteDate, inQuote |-> FALSE]
        ELSE [st EXCEPT !.result = Append(st.result, line)]

\* Mutant of QuoteScanStep: a header line records sender and date and leaves
\* the scanner in the state it was in.
QuoteScanStepHeaderStaysNormal(st, lines, i) ==
    LET line == lines[i]
        trimmedLine == TrimSpace(line)
        m == OnWroteMatch(trimmedLine, TRUE)
        box == renderQuoteBox(st.quoteFrom, st.quoteDate, st.quoteBlock)
        nextQuoted ==
            i + 1 <= Len(lines) /\ HasPrefix(TrimSpace(lines[i + 1]), <<">">>)
    IN  IF m.ok
        THEN [result |-> IF st.inQuote /\ st.quoteBlock # <<>>
                         THEN Append(st.result, box) ELSE st.result,
              quoteBlock |-> IF st.inQuote /\ st.quoteBlock # <<>>
                             THEN <<>> ELSE st.quoteBlock,
              quoteFrom |-> m.from,
              quoteDate |-> parseDateForDisplay(m.date),
              inQuote |-> st.inQuote]
        ELSE IF HasPrefix(trimmedLine, <<">">>)
        THEN [result |-> st.result,
              quoteBlock |-> Append(st.quoteBlock,
                                TrimPrefix(TrimPrefix(trimmedLine, <<">">>), <<" ">>)),
              quoteFrom |-> IF st.inQuote THEN st.quoteFrom ELSE <<>>,
              quoteDate |-> IF st.inQuote THEN st.quoteDate ELSE <<>>,
              inQuote |-> TRUE]
        ELSE IF st.inQuote
        THEN IF trimmedLine = <<>> /\ nextQuoted
             THEN [st EXCEPT !.quoteBlock = Append(st.quoteBlock, <<>>)]
             ELSE IF trimmedLine = <<>> /\ st.quoteBlock = <<>>
             THEN st
             ELSE [result |-> (IF st.quoteBlock # <<>>
                               THEN Append(st.result, box) ELSE st.result)
                              \o <<line>>,
                   quoteBlock |-> <<>>, quoteFrom |-> <<>>, quoteDate |-> <<>>,
                   inQuote |-> FALSE]
        ELSE [st EXCEPT !.result = Append(st.result, line)]

\* One iteration of the line loop of styleQuotedReplies.
QuoteScanStep(st, lines, i) ==
    LET line == lines[i]
        trimmedLine == TrimSpace(line)
        m == OnWroteMatch(trimmedLine, TRUE)
        box == renderQuoteBox(st.quoteFrom, st.quoteDate, st.quoteBlock)
        nextQuoted ==
            i + 1 <= Len(lines) /\ HasPrefix(TrimSpace(lines[i + 1]), <<">">>)
    IN  IF m.ok
        THEN [result |-> IF st.inQuote /\ st.quoteBlock # <<>>
                         THEN Append(st.result, box) ELSE st.result,
              quoteBlock |-> IF st.inQuote /\ st.quoteBlock # <<>>
                             THEN <<>> ELSE st.quoteBlock,
              quoteFrom |-> m.from,
              quoteDate |-> parseDateForDisplay(m.date),
              inQuote |-> TRUE]
        ELSE IF HasPrefix(trimmedLine, <<">">>)
        THEN [result |-> st.result,
              quoteBlock |-> Append(st.quoteBlock,
                                TrimPrefix(TrimPrefix(trimmedLine, <<">">>), <<" ">>)),
              quoteFrom |-> IF st.inQuote THEN st.quoteFrom ELSE <<>>,
              quoteDate |-> IF st.inQuote THEN st.quoteDate ELSE <<>>,
              inQuote |-> TRUE]
        ELSE IF st.inQuote
        THEN IF trimmedLine = <<>> /\ nextQuoted
             THEN [st EXCEPT !.quoteBlock = Append(st.quoteBlock, <<>>)]
             ELSE IF trimmedLine = <<>> /\ st.quoteBlock = <<>>
             THEN st
             ELSE [result |-> (IF st.quoteBlock # <<>>
                               THEN Append(st.result, box) ELSE st.result)
                              \o <<line>>,
                   quoteBlock |-> <<>>, quoteFrom |-> <<>>, quoteDate |-> <<>>,
                   inQuote |-> FALSE]
        ELSE [st EXCEPT !.result = Append(st.result, line)]

QuoteScan(lines) ==
    LET F[i \in 0..Len(lines)] ==
            IF i = 0 THEN QuoteScanInit ELSE QuoteScanStep(F[i - 1], lines, i)
    IN  F[Len(lines)]

styleQuotedReplies(t) ==
    LET st == QuoteScan(Split(t))
    IN  Join(IF st.inQuote /\ st.quoteBlock # <<>>
             THEN Append(st.result,
                         renderQuoteBox(st.quoteFrom, st.quoteDate, st.quoteBlock))
             ELSE st.result)

-----------------------------------------------------------------------------
(* Inputs of the render runs.                                              *)

HeaderLine == <<"On ", "d1", ", ", "s1", " wrote:">>
\* the header of a Gmail reply: On Jan 2, 2006 at 3:04 PM, alice@x.com wrote:
HeaderComma ==
    <<"On ", "Jan 2", ", ", "2006 at 3:04 PM", ", ", "alice@x.com", " wrote:">>
RemoteSrc == <<"http://", "host/img.png">>
CidSrc == <<"cid:", "x1">>
DataSrc == <<"data:image/", "png;base64", ",", BigPng>>
Href == <<"http://", "u1">>

\* The source items a raw body is made of.  md:p is a paragraph of plain
\* text, md:h1 a Markdown heading, the others are HTML as written.
Shapes ==
    {Node(1, "md:p", <<"w1", "\n", "w2">>, <<>>, FALSE, <<>>, <<>>),
     Node(1, "md:p", HeaderLine, <<>>, FALSE, <<>>, <<>>),
     Node(1, "md:p", <<"w1", "=2C", CtrlByte>>, <<>>, FALSE, <<>>, <<>>),
     Node(1, "md:h1", <<"# ", "t1">>, <<>>, FALSE, <<>>, <<>>),
     A(1, Href, <<Txt(<<"t1">>)>>),
     A(1, Href, <<Txt(Href)>>),
     A(1, Href, <<>>),
     Node(1, "a", <<>>, <<>>, FALSE, <<>>, <<Txt(<<"t1">>)>>),
     Img(1, RemoteSrc, <<"a1">>),
     Img(1, CidSrc, <<>>),
     Img(1, DataSrc, <<"a1">>),
     Node(1, "img", <<>>, <<>>, FALSE, <<"a1">>, <<>>),
     A(1, Href, <<Img(2, CidSrc, <<"a1">>)>>),
     El(1, "blockquote", <<Txt(<<"q1">>), A(2, Href, <<Txt(<<"t1">>)>>),
                           Img(3, RemoteSrc, <<"a1">>)>>),
     El(1, "h1", <<A(2, Href, <<Txt(<<"t1">>)>>)>>),
     El(1, "div", <<Txt(HeaderLine \o <<"\n", ">", " ", "q1", "\n">>),
                    El(2, "br", <<>>), El(3, "style", <<Txt(<<"css">>)>>)>>)}

\* a reply whose header line has a date with a comma in it
CommaShape ==
    El(1, "div", <<El(2, "p", <<Txt(HeaderComma)>>),
                   El(3, "blockquote",
                      <<Txt(<<"line one", "\n", "line two">>)>>)>>)

\* a reply whose header follows other text in the same paragraph
LeadShape ==
    El(1, "div", <<El(2, "p", <<Txt(<<"w0", " ">> \o HeaderLine)>>),
                   El(3, "blockquote", <<Txt(<<"q1">>)>>)>>)

\* ids made unique across the items of a body
RECURSIVE Relabel(_, _)
Relabel(f, off) ==
    [i \in 1..Len(f) |->
        [f[i] EXCEPT !.id = IF f[i].id = 0 THEN 0 ELSE f[i].id + off,
                     !.kids = Relabel(f[i].kids, off)]]

Bodies ==
    UNION {{Cat([i \in 1..n |-> Relabel(<<b[i]>>, 100 * (i - 1))]) :
                b \in [1..n -> Shapes]} : n \in 0..MaxItems}

\* The []InlineImage arguments of ProcessBodyWithInline.
InlineLists ==
    {<<>>,
     <<InlineEntry(<<" ", "<", "x1", ">">>, SmallPng)>>,
     <<InlineEntry(<<"x2">>, SmallPng), InlineEntry(<<"x1">>, "")>>}

\* One environment for each combination of hyperlink support and image
\* protocol family the detector can report.
EnvOf(term, prog, set) == [TERM |-> term, TERM_PROGRAM |-> prog, set |-> set]
RenderEnvs ==
    {EnvOf("xterm", "basic", {}),
     EnvOf("xterm", "basic", {"VTE_VERSION"}),
     EnvOf("xterm-kitty", "basic", {}),
     EnvOf("xterm", "basic", {"KONSOLE_VERSION"}),
     EnvOf("xterm", "iTerm.app", {}),
     EnvOf("xterm", "basic", {"ITERM_SESSION_ID"}),
     EnvOf("xterm", "basic", {"KITTY_WINDOW_ID", "ITERM_SESSION_ID"})}

\* no second call is in flight; no compose screen is open
NoCall == [pc |-> "none"]
NoComposer == [focusIndex |-> -1]
NoInbox == <<>>
NoEmailView == [emailIndex |-> -1]
NoFetch == [msgs |-> {}]
NoTui == inbox = NoInbox /\ activeView = "" /\ emailView = NoEmailView /\ fetch = NoFetch
NoScan == [i |-> -1]

NoEnc == [fn |-> "", out |-> <<>>, chunks |-> <<>>, rows |-> 0, tty |-> <<>>]

-----------------------------------------------------------------------------
(* The render call: ProcessBody / ProcessBodyWithInline / processBody.     *)

Init ==
    /\ env \in RenderEnvs
    /\ pc = "call"
    /\ rawBody \in Bodies
    /\ inlineList \in InlineLists
    /\ disableImages \in BOOLEAN
    /\ inline = <<>>
    /\ inlineNil = TRUE
    /\ doc = <<>>
    /\ quoteData = <<>>
    /\ imgTodo = <<>>
    /\ text = <<>>
    /\ result = <<>>
    /\ err = ""
    /\ httpLog = <<>>
    /\ imgLog = <<>>
    /\ stages = <<>>
    /\ payload = ""
    /\ enc = NoEnc /\ other = NoCall /\ composer = NoComposer /\ NoTui
    /\ scan = NoScan

Stage(from, to, name) ==
    /\ pc = from
    /\ pc' = to
    /\ stages' = Append(stages, name)
    /\ UNCHANGED <<sideVars, env, rawBody, inlineList, disableImages, payload, enc>>

\* ProcessBody: no inline images, the map is nil
ProcessBody ==
    /\ Stage("call", "decode", "ProcessBody")
    /\ inlineList = <<>>
    /\ inline' = <<>>
    /\ inlineNil' = TRUE
    /\ UNCHANGED <<doc, quoteData, imgTodo, text, result, err, httpLog, imgLog>>

ProcessBodyWithInline ==
    /\ Stage("call", "decode", "ProcessBodyWithInline")
    /\ inline' = BuildInlineMap(inlineList)
    /\ inlineNil' = FALSE
    /\ UNCHANGED <<doc, quoteData, imgTodo, text, result, err, httpLog, imgLog>>

\* Mutant of DecodeBody: a decode error is returned to the caller.
DecodeBodyPropagates ==
    /\ Stage("decode",
             IF decodeQuotedPrintable(rawBody).ok THEN "markdown" ELSE "done",
             IF decodeQuotedPrintable(rawBody).ok THEN "decode" ELSE "decode failed")
    /\ doc' = decodeQuotedPrintable(rawBody).body
    /\ err' = IF decodeQuotedPrintable(rawBody).ok THEN "" ELSE "decode error"
    /\ UNCHANGED <<inline, inlineNil, quoteData, imgTodo, text, result,
                   httpLog, imgLog>>

\* decodedBody, err := decodeQuotedPrintable(rawBody); on error the raw body
DecodeBody ==
    /\ Stage("decode", "markdown",
             IF decodeQuotedPrintable(rawBody).ok THEN "decode" ELSE "decode failed")
    /\ doc' = IF decodeQuotedPrintable(rawBody).ok
              THEN decodeQuotedPrintable(rawBody).body ELSE rawBody
    /\ UNCHANGED <<inline, inlineNil, quoteData, imgTodo, text, result, err,
                   httpLog, imgLog>>

Markdown ==
    /\ \E convertOK \in BOOLEAN :
          /\ Stage("markdown", "parse",
                   IF convertOK THEN "markdown" ELSE "markdown failed")
          /\ doc' = markdownToHTML(doc, convertOK)
    /\ UNCHANGED <<inline, inlineNil, quoteData, imgTodo, text, result, err,
                   httpLog, imgLog>>

\* goquery.NewDocumentFromReader succeeds
ParseOK ==
    /\ Stage("parse", "strip", "parse")
    /\ doc' = ParseHTML(doc)
    /\ UNCHANGED <<inline, inlineNil, quoteData, imgTodo, text, result, err,
                   httpLog, imgLog>>

\* goquery.NewDocumentFromReader fails: return "", error
ParseFail ==
    /\ Stage("parse", "done", "parse failed")
    /\ err' = "could not parse email body"
    /\ result' = <<>>
    /\ UNCHANGED <<inline, inlineNil, doc, quoteData, imgTodo, text, httpLog, imgLog>>

DocStage(from, to, name, newDoc) ==
    /\ Stage(from, to, name)
    /\ doc' = newDoc
    /\ UNCHANGED <<inline, inlineNil, quoteData, imgTodo, text, result, err,
                   httpLog, imgLog>>

StripStyleScript == DocStage("strip", "h1", "strip", RemoveStyleScript(doc))
StyleH1 == DocStage("h1", "h2", "h1", StyleHeader(doc, "h1", "h1"))
StyleH2 == DocStage("h2", "spacing", "h2", StyleHeader(doc, "h2", "h2"))
Spacing == DocStage("spacing", "br", "spacing", AddSpacing(doc))
Br == DocStage("br", "blockquote", "br", ReplaceBr(doc))

Blockquotes ==
    /\ Stage("blockquote", "a", "blockquote")
    /\ doc' = ExtractBlockquotes(doc).doc
    /\ quoteData' = ExtractBlockquotes(doc).quotes
    /\ UNCHANGED <<inline, inlineNil, imgTodo, text, result, err, httpLog, imgLog>>

Anchors == DocStage("a", "img", "a", RewriteAnchors(doc))

\* doc.Find("img"): the selection Each will visit
FindImages ==
    /\ Stage("img", "img.each", "img")
    /\ imgTodo' = Find(doc, {"img"})
    /\ UNCHANGED <<inline, inlineNil, doc, quoteData, text, result, err,
                   httpLog, imgLog>>

\* one <img> of the selection; the fetch, if one is made, ends in outcome
ImageStep ==
    /\ pc = "img.each"
    /\ imgTodo # <<>>
    /\ \E outcome \in FetchOutcomes, tty \in TtyFew :
          LET r == ProcessImg(doc, Head(imgTodo), inline, inlineNil,
                              disableImages, outcome, tty)
          IN  /\ doc' = r.doc
              /\ httpLog' = httpLog \o r.requests
              /\ imgLog' = Append(imgLog, r.log)
    /\ imgTodo' = Tail(imgTodo)
    /\ UNCHANGED <<sideVars, env, pc, rawBody, inline, inlineNil, inlineList, disableImages,
                   quoteData, text, result, err, stages, payload, enc>>

TextStage(from, to, name, newText) ==
    /\ Stage(from, to, name)
    /\ text' = newText
    /\ UNCHANGED <<inline, inlineNil, doc, quoteData, imgTodo, result, err,
                   httpLog, imgLog>>

\* Mutant of ExtractText: the text is taken before the images are rewritten.
ExtractTextBeforeImages ==
    TextStage("img", "collapse", "text", ForestText(doc))

ExtractText ==
    /\ imgTodo = <<>>
    /\ TextStage("img.each", "collapse", "text", ForestText(doc))
Collapse == TextStage("collapse", "expand", "collapse", CollapseNewlines(text))
ExpandRows == TextStage("expand", "quotes", "expand", expandImageRowPlaceholders(text))
ResolveQuotes ==
    TextStage("quotes", "plainquotes", "quotes", ResolveQuotePlaceholders(text, quoteData))
StyleQuoted ==
    TextStage("plainquotes", "style", "plainquotes", styleQuotedReplies(text))

\* return bodyStyle.Render(text), nil
Return ==
    /\ Stage("style", "done", "style")
    /\ result' = StyleRender("body", text)
    /\ UNCHANGED <<inline, inlineNil, doc, quoteData, imgTodo, text, err,
                   httpLog, imgLog>>

Next ==
    \/ ProcessBody \/ ProcessBodyWithInline
    \/ DecodeBody \/ Markdown \/ ParseOK \/ ParseFail
    \/ StripStyleScript \/ StyleH1 \/ StyleH2 \/ Spacing \/ Br
    \/ Blockquotes \/ Anchors \/ FindImages \/ ImageStep
    \/ ExtractText \/ Collapse \/ ExpandRows \/ ResolveQuotes \/ StyleQuoted
    \/ Return

Spec == Init /\ [][Next]_vars

\* The render call on bodies with quoted replies in them.
QuoteBodies ==
    {<<x>> : x \in {y \in Shapes : \/ y.tag \in {"blockquote", "div", "img"}
                                   \/ y.toks = HeaderLine}
                   \cup {CommaShape, LeadShape}}

InitQuote ==
    /\ env \in {EnvOf("xterm", "basic", {}), EnvOf("xterm-kitty", "basic", {})}
    /\ pc = "call"
    /\ rawBody \in QuoteBodies
    /\ inlineList = <<>>
    /\ disableImages = FALSE
    /\ inline = <<>> /\ inlineNil = TRUE /\ doc = <<>> /\ quoteData = <<>>
    /\ imgTodo = <<>> /\ text = <<>> /\ result = <<>> /\ err = ""
    /\ httpLog = <<>> /\ imgLog = <<>> /\ stages = <<>>
    /\ payload = "" /\ enc = NoEnc /\ other = NoCall /\ composer = NoComposer /\ NoTui
    /\ scan = NoScan

SpecQuote == InitQuote /\ [][Next]_vars

\* The render call on mails whose own text holds marker text: a row marker
\* with count n and a quote marker with index n, in a paragraph that follows
\* the items before.
RowMarker(n) == <<imageRowPlaceholderPrefix, n, imageRowPlaceholderSuffix>>
QuoteMarker(n) == <<QuotePrefix, n, QuoteSuffix>>
MarkerMail(before, marker) ==
    <<El(1, "div", before \o <<El(9, "p", <<Txt(<<"w1">> \o marker \o <<"w2">>)>>)>>)>>

QuotedItem == El(2, "blockquote", <<Txt(<<"q1">>)>>)

MarkerBodies ==
    {MarkerMail(<<>>, RowMarker("2")),
     MarkerMail(<<>>, RowMarker("0")),
     MarkerMail(<<>>, RowMarker("x")),
     MarkerMail(<<Img(2, DataSrc, <<"a1">>)>>, RowMarker("2")),
     MarkerMail(<<>>, QuoteMarker("0")),
     MarkerMail(<<QuotedItem>>, QuoteMarker("0")),
     MarkerMail(<<QuotedItem>>, QuoteMarker("1")),
     MarkerMail(<<QuotedItem>>, QuoteMarker(HugeNum)),
     MarkerMail(<<El(2, "blockquote", <<Txt(RowMarker("2"))>>)>>, <<>>),
     MarkerMail(<<El(2, "blockquote", <<Txt(QuoteMarker("0"))>>)>>, <<>>)}

InitMarker ==
    /\ env \in {EnvOf("xterm", "basic", {}), EnvOf("xterm-kitty", "basic", {})}
    /\ pc = "call"
    /\ rawBody \in MarkerBodies
    /\ inlineList = <<>>
    /\ disableImages = FALSE
    /\ inline = <<>> /\ inlineNil = TRUE /\ doc = <<>> /\ quoteData = <<>>
    /\ imgTodo = <<>> /\ text = <<>> /\ result = <<>> /\ err = ""
    /\ httpLog = <<>> /\ imgLog = <<>> /\ stages = <<>>
    /\ payload = "" /\ enc = NoEnc /\ other = NoCall /\ composer = NoComposer /\ NoTui
    /\ scan = NoScan

SpecMarker == InitMarker /\ [][Next]_vars

-----------------------------------------------------------------------------
(* The encoders called on their own, and the protocol dispatch.            *)

\* which protocol an encoder output starts with
ProtocolOf(out) ==
    IF out = <<>> THEN "none"
    ELSE IF out[1] = KittyFirst THEN "kitty"
    ELSE IF out[1] = Iterm2Start THEN "iterm2"
    ELSE "other"

InitEncode ==
    /\ env = EnvOf("xterm", "basic", {})
    /\ pc = "encode"
    /\ payload \in Payloads \cup {""}
    /\ enc = NoEnc /\ other = NoCall /\ composer = NoComposer /\ NoTui
    /\ scan = NoScan
    /\ rawBody = <<>> /\ inlineList = <<>> /\ disableImages = FALSE
    /\ inline = <<>> /\ inlineNil = TRUE /\ doc = <<>> /\ quoteData = <<>>
    /\ imgTodo = <<>> /\ text = <<>> /\ result = <<>> /\ err = ""
    /\ httpLog = <<>> /\ imgLog = <<>> /\ stages = <<>>

CallKitty ==
    /\ pc = "encode"
    /\ \E tty \in TtyStates :
          enc' = [fn |-> "kittyInlineImage",
                  out |-> kittyInlineImage(payload, tty),
                  chunks |-> KittyChunks(payload, 0),
                  rows |-> IF payload = "" THEN 0 ELSE ImageRows(payload, tty),
                  tty |-> tty]
    /\ pc' = "encoded"
    /\ UNCHANGED <<sideVars, env, payload, renderVars>>

CallIterm2 ==
    /\ pc = "encode"
    /\ \E tty \in TtyStates :
          enc' = [fn |-> "iterm2InlineImage",
                  out |-> iterm2InlineImage(payload, tty),
                  chunks |-> <<>>,
                  rows |-> IF payload = "" THEN 0 ELSE ImageRows(payload, tty),
                  tty |-> tty]
    /\ pc' = "encoded"
    /\ UNCHANGED <<sideVars, env, payload, renderVars>>

NextEncode == CallKitty \/ CallIterm2

SpecEncode == InitEncode /\ [][NextEncode]_vars

InitDispatch ==
    /\ env \in Envs
    /\ pc = "dispatch"
    /\ payload \in {"", SmallPng, BigPng, NotImage}
    /\ enc = NoEnc /\ other = NoCall /\ composer = NoComposer /\ NoTui
    /\ scan = NoScan
    /\ rawBody = <<>> /\ inlineList = <<>> /\ disableImages = FALSE
    /\ inline = <<>> /\ inlineNil = TRUE /\ doc = <<>> /\ quoteData = <<>>
    /\ imgTodo = <<>> /\ text = <<>> /\ result = <<>> /\ err = ""
    /\ httpLog = <<>> /\ imgLog = <<>> /\ stages = <<>>

CallRenderInlineImage ==
    /\ pc = "dispatch"
    /\ \E tty \in TtyFew :
          enc' = [fn |-> "renderInlineImage",
                  out |-> renderInlineImage(payload, tty),
                  chunks |-> <<>>,
                  rows |-> 0,
                  tty |-> tty]
    /\ pc' = "dispatched"
    /\ UNCHANGED <<sideVars, env, payload, renderVars>>

NextDispatch == CallRenderInlineImage

SpecDispatch == InitDispatch /\ [][NextDispatch]_vars

-----------------------------------------------------------------------------
(* The two text rewrites of the finalizer, applied to texts of their own.  *)

\* the sequences over an alphabet of at most n tokens
SeqsUpTo(alphabet, n) == UNION {[1..k -> alphabet] : k \in 0..n}

TextInputs ==
    SeqsUpTo({"\n", "w"}, MaxRunText)
        \cup SeqsUpTo({"\n", "w", "x", imageRowPlaceholderPrefix, "0", "2",
                       HugeNum, imageRowPlaceholderSuffix}, MaxText)

\* texts that carry quote placeholders, and the records they may refer to
QuoteTexts ==
    SeqsUpTo({"w", QuotePrefix, "0", "1", HugeNum, QuoteSuffix}, MaxText)
QuoteLists ==
    {<<>>,
     <<[from |-> <<"s1">>, date |-> <<"d1">>, content |-> <<"q1">>]>>,
     <<[from |-> <<"s1">>, date |-> <<"d1">>, content |-> <<"q1">>],
       [from |-> <<>>, date |-> <<>>, content |-> <<"q2", "\n", "q3">>]>>}

InitText ==
    /\ env = EnvOf("xterm", "basic", {})
    /\ pc = "text"
    /\ \/ text \in TextInputs /\ quoteData = <<>>
       \/ text \in QuoteTexts /\ quoteData \in QuoteLists
    /\ payload = "" /\ enc = NoEnc /\ other = NoCall /\ composer = NoComposer /\ NoTui
    /\ scan = NoScan
    /\ rawBody = <<>> /\ inlineList = <<>> /\ disableImages = FALSE
    /\ inline = <<>> /\ inlineNil = TRUE /\ doc = <<>>
    /\ imgTodo = <<>> /\ result = <<>> /\ err = ""
    /\ httpLog = <<>> /\ imgLog = <<>> /\ stages = <<>>

\* text = re.ReplaceAllString(text, "\n\n")
CallCollapse ==
    /\ pc = "text"
    /\ result' = CollapseNewlines(text)
    /\ pc' = "collapsed"
    /\ UNCHANGED <<sideVars, env, rawBody, inline, inlineNil, inlineList, disableImages, doc,
                   quoteData, imgTodo, text, err, httpLog, imgLog, stages,
                   payload, enc>>

\* the same replacement applied to its own result
CallCollapseAgain ==
    /\ pc = "collapsed"
    /\ text' = result
    /\ result' = CollapseNewlines(result)
    /\ pc' = "collapsed twice"
    /\ UNCHANGED <<sideVars, env, rawBody, inline, inlineNil, inlineList, disableImages, doc,
                   quoteData, imgTodo, err, httpLog, imgLog, stages, payload, enc>>

\* text = expandImageRowPlaceholders(text)
CallExpand ==
    /\ pc = "text"
    /\ result' = expandImageRowPlaceholders(text)
    /\ pc' = "expanded"
    /\ UNCHANGED <<sideVars, env, rawBody, inline, inlineNil, inlineList, disableImages, doc,
                   quoteData, imgTodo, text, err, httpLog, imgLog, stages,
                   payload, enc>>

\* text = quoteRegex.ReplaceAllStringFunc(text, ...)
CallResolveQuotes ==
    /\ pc = "text"
    /\ result' = ResolveQuotePlaceholders(text, quoteData)
    /\ pc' = "resolved"
    /\ UNCHANGED <<sideVars, env, rawBody, inline, inlineNil, inlineList, disableImages, doc,
                   quoteData, imgTodo, text, err, httpLog, imgLog, stages,
                   payload, enc>>

NextText == CallCollapse \/ CallCollapseAgain \/ CallExpand \/ CallResolveQuotes

SpecText == InitText /\ [][NextText]_vars

-----------------------------------------------------------------------------
(* The inline-image lookup: ProcessBodyWithInline builds the map, the      *)
(* image step looks a cid: reference up in it.                             *)

\* a content id as a caller may write it
WrappingsOf(x) ==
    {<<x>>, <<" ", x, " ">>, <<"<", x, ">">>, <<" ", "<", x, ">", " ">>,
     <<"cid:", x>>, <<" ", "cid:", x>>, <<"<", "cid:", x, ">">>,
     <<"cid:", "<", x, ">">>}

CidEntries ==
    {InlineEntry(c, b) :
        c \in WrappingsOf("x1") \cup {<<"x2">>, <<>>},
        b \in {SmallPng, BigPng, ""}}

CidRefs ==
    {<<"cid:", "x1">>, <<"cid:", "<", "x1", ">">>, <<"cid:", "x2">>}

InitCid ==
    /\ env = EnvOf("xterm", "basic", {})
    /\ pc = "cid"
    /\ inlineList \in SeqsUpTo(CidEntries, MaxEntries)
    /\ payload = "" /\ enc = NoEnc /\ other = NoCall /\ composer = NoComposer /\ NoTui
    /\ scan = NoScan
    /\ rawBody = <<>> /\ disableImages = FALSE
    /\ inline = <<>> /\ inlineNil = TRUE /\ doc = <<>> /\ quoteData = <<>>
    /\ imgTodo = <<>> /\ text = <<>> /\ result = <<>> /\ err = ""
    /\ httpLog = <<>> /\ imgLog = <<>> /\ stages = <<>>

\* inlineMap := make(...); for _, img := range inline { ... }
CallBuildInlineMap ==
    /\ pc = "cid"
    /\ inline' = BuildInlineMap(inlineList)
    /\ inlineNil' = FALSE
    /\ pc' = "built"
    /\ UNCHANGED <<sideVars, env, rawBody, inlineList, disableImages, doc, quoteData,
                   imgTodo, text, result, err, httpLog, imgLog, stages, payload,
                   enc>>

\* the payload the image step finds for an <img src="cid:...">; text keeps
\* the src
CallCidLookup ==
    /\ pc = "built"
    /\ \E src \in CidRefs :
          /\ text' = src
          /\ payload' = PayloadOf(src, inline, inlineNil, "ok").payload
    /\ pc' = "looked up"
    /\ UNCHANGED <<sideVars, env, rawBody, inline, inlineNil, inlineList, disableImages, doc,
                   quoteData, imgTodo, result, err, httpLog, imgLog, stages, enc>>

NextCid == CallBuildInlineMap \/ CallCidLookup

SpecCid == InitCid /\ [][NextCid]_vars

-----------------------------------------------------------------------------
(* Two processBody calls on the same arguments in the same environment,    *)
(* interleaved.  Everything processBody assigns is a local of the call     *)
(* (decodedBody, doc, quoteData, text, ...); the package-level values it   *)
(* reads (the styles, the regexps, the environment) are never assigned.    *)
(* The variables hold the locals of the running call, other those of the   *)
(* suspended one.                                                          *)

Locals ==
    [pc |-> pc, inline |-> inline, inlineNil |-> inlineNil, doc |-> doc,
     quoteData |-> quoteData, imgTodo |-> imgTodo, text |-> text,
     result |-> result, err |-> err, httpLog |-> httpLog, imgLog |-> imgLog,
     stages |-> stages]

\* a paragraph, a remote image, a blockquote
PairBodies ==
    {<<x>> : x \in {y \in Shapes : \/ y.tag = "blockquote"
                                   \/ y.tag = "img" /\ y.url = RemoteSrc
                                   \/ y.tag = "md:p" /\ y.toks = HeaderLine}}

InitPair ==
    /\ env = EnvOf("xterm-kitty", "basic", {})
    /\ pc = "call"
    /\ rawBody \in PairBodies
    /\ inlineList \in {l \in InlineLists : Len(l) <= 1}
    /\ disableImages = FALSE
    /\ inline = <<>> /\ inlineNil = TRUE /\ doc = <<>> /\ quoteData = <<>>
    /\ imgTodo = <<>> /\ text = <<>> /\ result = <<>> /\ err = ""
    /\ httpLog = <<>> /\ imgLog = <<>> /\ stages = <<>>
    /\ payload = "" /\ enc = NoEnc /\ composer = NoComposer /\ NoTui
    /\ scan = NoScan
    /\ other = [pc |-> "call", inline |-> <<>>, inlineNil |-> TRUE, doc |-> <<>>,
                quoteData |-> <<>>, imgTodo |-> <<>>, text |-> <<>>,
                result |-> <<>>, err |-> "", httpLog |-> <<>>, imgLog |-> <<>>,
                stages |-> <<>>]

\* Mutant of Switch: text is one package-level buffer, not a local.
SwitchSharedText ==
    /\ other.pc # "none"
    /\ pc' = other.pc /\ inline' = other.inline /\ inlineNil' = other.inlineNil
    /\ doc' = other.doc /\ quoteData' = other.quoteData
    /\ imgTodo' = other.imgTodo
    /\ result' = other.result /\ err' = other.err
    /\ httpLog' = other.httpLog /\ imgLog' = other.imgLog
    /\ stages' = other.stages
    /\ other' = Locals
    /\ UNCHANGED <<env, rawBody, inlineList, disableImages, payload, enc,
                   composer, tuiVars, scan, text>>

\* the scheduler runs the other goroutine: each call keeps its locals
Switch ==
    /\ other.pc # "none"
    /\ pc' = other.pc /\ inline' = other.inline /\ inlineNil' = other.inlineNil
    /\ doc' = other.doc /\ quoteData' = other.quoteData
    /\ imgTodo' = other.imgTodo /\ text' = other.text
    /\ result' = other.result /\ err' = other.err
    /\ httpLog' = other.httpLog /\ imgLog' = other.imgLog
    /\ stages' = other.stages
    /\ other' = Locals
    /\ UNCHANGED <<env, rawBody, inlineList, disableImages, payload, enc,
                   composer, tuiVars, scan>>

NextPair == Next \/ Switch

SpecPair == InitPair /\ [][NextPair]_vars

-----------------------------------------------------------------------------
(* The compose screen: NewComposer / NewComposerWithAccounts and           *)
(* Composer.Update.  The model record m has the fields of Composer that    *)
(* Update reads or writes; accounts and suggestions are the lengths of     *)
(* the slices, an input's value is the sequence of what was typed into it. *)

focusFrom == 0
focusTo == 1
focusSubject == 2
focusBody == 3
focusSignature == 4
focusAttachment == 5
focusSend == 6

\* tea.KeyMsg by its String(); y is a rune
Runes == {"y"}
Keys == {"tab", "shift+tab", "enter", "esc", "up", "down", "ctrl+c"} \cup Runes
OtherMsgs == {"WindowSizeMsg", "SetComposerCursorToStartMsg", "FileSelectedMsg"}
\* the other letters the exit confirmation knows; they are pressed only while
\* it shows
ConfirmLetters == {"Y", "n", "N"}

\* the value SetValue gives the To input for the selected contact
ContactValue(i) == <<<<"c1">>, <<"c2">>, <<"c3">>>>[i + 1]

\* len() of an input's value: a contact is longer than one byte
ByteLen(v) == IF v # <<>> /\ <<v[1]>> \in {ContactValue(i) : i \in 0..2}
              THEN Len(v) + 1 ELSE Len(v)

\* Mutant of minFocus: From is in the cycle whatever the accounts.
minFocusAlwaysFrom(m) == focusFrom

\* minFocus := focusFrom; if len(m.accounts) <= 1 { minFocus = focusTo }
minFocus(m) == IF m.accounts <= 1 THEN focusTo ELSE focusFrom

\* case tea.KeyTab, tea.KeyShiftTab
focusKeys(m, key) ==
    LET moved == IF key = "shift+tab" THEN m.focusIndex - 1 ELSE m.focusIndex + 1
        maxFocus == focusSend
        wrapped == IF moved > maxFocus THEN minFocus(m)
                   ELSE IF moved < minFocus(m) THEN maxFocus
                   ELSE moved
    IN  [m |-> [m EXCEPT !.focusIndex = wrapped], cmd |-> "Batch"]

\* Mutant of accountPickerKeys: down moves on without looking at the end.
accountPickerKeysUnclamped(m, key) ==
    [m |-> IF key = "up"
           THEN [m EXCEPT !.selectedAccountIdx = IF @ > 0 THEN @ - 1 ELSE @]
           ELSE IF key = "down"
           THEN [m EXCEPT !.selectedAccountIdx = @ + 1]
           ELSE IF key \in {"enter", "esc"}
           THEN [m EXCEPT !.showAccountPicker = FALSE]
           ELSE m,
     cmd |-> "nil"]

\* if m.showAccountPicker { switch msg.String() ... return m, nil }
accountPickerKeys(m, key) ==
    [m |-> IF key = "up"
           THEN [m EXCEPT !.selectedAccountIdx = IF @ > 0 THEN @ - 1 ELSE @]
           ELSE IF key = "down"
           THEN [m EXCEPT !.selectedAccountIdx =
                              IF @ < m.accounts - 1 THEN @ + 1 ELSE @]
           ELSE IF key \in {"enter", "esc"}
           THEN [m EXCEPT !.showAccountPicker = FALSE]
           ELSE m,
     cmd |-> "nil"]

\* if m.confirmingExit { ... }
confirmingExitKeys(m, key) ==
    IF key \in {"y", "Y"} THEN [m |-> m, cmd |-> "DiscardDraftMsg"]
    ELSE IF key \in {"n", "N", "esc"}
    THEN [m |-> [m EXCEPT !.confirmingExit = FALSE], cmd |-> "nil"]
    ELSE [m |-> m, cmd |-> "nil"]

\* textinput / textarea Update: a rune is inserted, and in a textarea
\* Enter starts a new line; nothing else changes the value
Typed(v, msg, area) ==
    IF msg \in Runes \cup ConfirmLetters THEN Append(v, msg)
    ELSE IF area /\ msg = "enter" THEN Append(v, "\n")
    ELSE v

\* the switch on m.focusIndex after the key handling; found is the length
\* of what config.SearchContacts returns
focusedInput(m, msg, found) ==
    IF m.focusIndex = focusTo
    THEN LET currentValue == Typed(m.to, msg, FALSE)
             m1 == [m EXCEPT !.to = currentValue]
         IN  IF currentValue = m.lastToValue THEN m1
             ELSE IF ByteLen(currentValue) >= 2
             THEN [m1 EXCEPT !.lastToValue = currentValue,
                             !.suggestions = found,
                             !.showSuggestions = found > 0,
                             !.selectedSuggestion = 0]
             ELSE [m1 EXCEPT !.lastToValue = currentValue,
                             !.showSuggestions = FALSE,
                             !.suggestions = 0]
    ELSE IF m.focusIndex = focusSubject
    THEN [m EXCEPT !.subject = Typed(@, msg, FALSE)]
    ELSE IF m.focusIndex = focusBody
    THEN [m EXCEPT !.body = Typed(@, msg, TRUE)]
    ELSE IF m.focusIndex = focusSignature
    THEN [m EXCEPT !.signature = Typed(@, msg, TRUE)]
    ELSE m

\* switch msg.Type { ... } and, for a key no case returns on, the inputs
plainKeys(m, key, found) ==
    IF key = "ctrl+c" THEN [m |-> m, cmd |-> "Quit"]
    ELSE IF key = "esc" THEN [m |-> [m EXCEPT !.confirmingExit = TRUE], cmd |-> "nil"]
    ELSE IF key \in {"tab", "shift+tab"} THEN focusKeys(m, key)
    ELSE IF key = "enter" /\ m.focusIndex = focusFrom
    THEN [m |-> [m EXCEPT !.showAccountPicker = m.accounts > 1], cmd |-> "nil"]
    ELSE IF key = "enter" /\ m.focusIndex = focusAttachment
    THEN [m |-> m, cmd |-> "GoToFilePickerMsg"]
    ELSE IF key = "enter" /\ m.focusIndex = focusSend
    THEN [m |-> m, cmd |-> "SendEmailMsg"]
    ELSE [m |-> focusedInput(m, key, found), cmd |-> "Batch"]

\* after the contact suggestions: picker, exit confirmation, plain keys
afterSuggestions(m, key, found) ==
    IF m.showAccountPicker THEN accountPickerKeys(m, key)
    ELSE IF m.confirmingExit THEN confirmingExitKeys(m, key)
    ELSE plainKeys(m, key, found)

\* case tea.KeyMsg
keyMsg(m, key, found) ==
    IF m.showSuggestions /\ m.suggestions > 0
    THEN IF key = "up"
         THEN [m |-> [m EXCEPT !.selectedSuggestion = IF @ > 0 THEN @ - 1 ELSE @],
               cmd |-> "nil"]
         ELSE IF key = "down"
         THEN [m |-> [m EXCEPT !.selectedSuggestion =
                                  IF @ < m.suggestions - 1 THEN @ + 1 ELSE @],
               cmd |-> "nil"]
         ELSE IF key \in {"tab", "enter"}
         THEN [m |-> [m EXCEPT !.to = ContactValue(m.selectedSuggestion),
                               !.lastToValue = ContactValue(m.selectedSuggestion),
                               !.showSuggestions = FALSE,
                               !.suggestions = 0],
               cmd |-> "nil"]
         ELSE IF key = "esc"
         THEN [m |-> [m EXCEPT !.showSuggestions = FALSE, !.suggestions = 0],
               cmd |-> "nil"]
         ELSE IF key = "shift+tab"
         THEN afterSuggestions([m EXCEPT !.showSuggestions = FALSE,
                                         !.suggestions = 0], key, found)
         ELSE afterSuggestions(m, key, found)
    ELSE afterSuggestions(m, key, found)

\* func (m *Composer) Update(msg tea.Msg) (tea.Model, tea.Cmd)
Update(m, msg, found) ==
    IF msg = "SetComposerCursorToStartMsg" THEN [m |-> m, cmd |-> "nil"]
    ELSE IF msg = "FileSelectedMsg"
    THEN [m |-> [m EXCEPT !.attachmentPath = "path"], cmd |-> "nil"]
    ELSE IF msg = "WindowSizeMsg"
    THEN [m |-> focusedInput(m, msg, found), cmd |-> "Batch"]
    ELSE keyMsg(m, msg, found)

\* NewComposer and NewComposerWithAccounts; sel is the index the selected
\* account id is found at, 0 when it is not found
NewComposer(to, accounts, sel) ==
    [focusIndex |-> focusTo, to |-> to, subject |-> <<>>, body |-> <<>>,
     signature |-> <<>>, attachmentPath |-> "", confirmingExit |-> FALSE,
     accounts |-> accounts, selectedAccountIdx |-> sel,
     showAccountPicker |-> FALSE, suggestions |-> 0, selectedSuggestion |-> 0,
     showSuggestions |-> FALSE, lastToValue |-> <<>>]

TypedLen(m) == Len(m.to) + Len(m.subject) + Len(m.body) + Len(m.signature)

InitComposer ==
    /\ env = EnvOf("xterm", "basic", {})
    /\ pc = "composer"
    /\ \E n \in 0..MaxAccounts, to \in {<<>>, ContactValue(0)} :
          \E sel \in {i \in 0..n : i = 0 \/ i < n} :
              composer = NewComposer(to, n, sel)
    /\ payload = "" /\ enc = NoEnc /\ other = NoCall /\ NoTui
    /\ scan = NoScan
    /\ rawBody = <<>> /\ inlineList = <<>> /\ disableImages = FALSE
    /\ inline = <<>> /\ inlineNil = TRUE /\ doc = <<>> /\ quoteData = <<>>
    /\ imgTodo = <<>> /\ text = <<>> /\ result = <<>> /\ err = ""
    /\ httpLog = <<>> /\ imgLog = <<>> /\ stages = <<>>

KeyMsg ==
    /\ pc = "composer"
    /\ \E key \in Keys \cup (IF composer.confirmingExit THEN ConfirmLetters ELSE {}),
          found \in 0..MaxContacts :
          /\ TypedLen(Update(composer, key, found).m) <= MaxTyped
          /\ composer' = Update(composer, key, found).m
    /\ UNCHANGED <<env, pc, renderVars, encodeVars, other, tuiVars, scan>>

OtherMsg ==
    /\ pc = "composer"
    /\ \E msg \in OtherMsgs, found \in 0..MaxContacts :
          composer' = Update(composer, msg, found).m
    /\ UNCHANGED <<env, pc, renderVars, encodeVars, other, tuiVars, scan>>

NextComposer == KeyMsg \/ OtherMsg

SpecComposer == InitComposer /\ [][NextComposer]_vars

-----------------------------------------------------------------------------
(* The mailbox screens: Inbox and TrashArchive.  An email is the record of *)
(* the fields the screens read; a Go map is a function on its keys.        *)

AccA == [ID |-> "a", Email |-> "a@x", FetchEmail |-> "fa@x"]
AccB == [ID |-> "b", Email |-> "b@x", FetchEmail |-> ""]
AllAccounts == <<AccA, AccB>>

\* the []config.Account a screen is given
AccountLists ==
    {SubSeq(AllAccounts, 1, n) : n \in 0..Min(MaxAccounts, Len(AllAccounts))}
        \cup {<<AccB>>}

Email(uid, acc, date) == [UID |-> uid, AccountID |-> acc, Date |-> date]
EmailPool == {Email(1, "a", 2), Email(1, "b", 1), Email(2, "a", 1)}
\* a mailbox holds an email once: the UID is unique within an account
EmailLists ==
    {l \in SeqsUpTo(EmailPool, MaxEmails) :
        \A i, j \in 1..Len(l) : l[i] = l[j] => i = j}
EmailsOf(acc) == {l \in EmailLists : \A i \in 1..Len(l) : l[i].AccountID = acc}

MapGet(m, k) == IF k \in DOMAIN m THEN m[k] ELSE <<>>
MapPut(m, k, v) == [x \in (DOMAIN m) \cup {k} |-> IF x = k THEN v ELSE m[x]]

\* for _, email := range emails { emailsByAccount[email.AccountID] = append(...) }
GroupByAccount(emails) ==
    [k \in {emails[i].AccountID : i \in 1..Len(emails)} |->
        SelectSeq(emails, LAMBDA e : e.AccountID = k)]

Tab(id, label, email) == [ID |-> id, Label |-> label, Email |-> email]

\* the tabs NewInboxWithMailbox builds
NewTabs(accounts) ==
    IF Len(accounts) <= 1 THEN <<Tab("", "", "")>>
    ELSE <<Tab("", "ALL", "")>> \o
         [i \in 1..Len(accounts) |->
             LET displayEmail == IF accounts[i].FetchEmail = ""
                                 THEN accounts[i].Email
                                 ELSE accounts[i].FetchEmail
             IN  Tab(accounts[i].ID, displayEmail, displayEmail)]

\* the tabs SetEmails builds
SetEmailsTabs(accounts) ==
    IF Len(accounts) <= 1 THEN <<Tab("", "", "")>>
    ELSE <<Tab("", "ALL", "")>> \o
         [i \in 1..Len(accounts) |->
             Tab(accounts[i].ID, accounts[i].FetchEmail, accounts[i].Email)]

\* updateList: a new list.Model over the emails of the current view
updateList(m) ==
    [m EXCEPT !.list =
        [items |-> IF m.currentAccountID = "" THEN m.allEmails
                   ELSE MapGet(m.emailsByAccount, m.currentAccountID),
         index |-> 0,
         filterState |-> "unfiltered"]]

NewInboxWithMailbox(emails, accounts, mailbox) ==
    updateList([accounts |-> accounts,
                emailsByAccount |-> GroupByAccount(emails),
                allEmails |-> emails,
                tabs |-> NewTabs(accounts),
                activeTabIndex |-> 0,
                currentAccountID |-> "",
                mailbox |-> mailbox,
                isFetching |-> FALSE,
                isRefreshing |-> FALSE,
                list |-> <<>>])

\* Mutant of shouldFetchMore: the fetch in flight is not looked at.
shouldFetchMoreWhileFetching(m) ==
    /\ Len(m.list.items) # 0
    /\ m.list.filterState # "filtering"
    /\ m.list.index >= Len(m.list.items) - 1

shouldFetchMore(m) ==
    /\ ~m.isFetching
    /\ Len(m.list.items) # 0
    /\ m.list.filterState # "filtering"
    /\ m.list.index >= Len(m.list.items) - 1

FetchMoreEmailsMsg(off, id, mailbox) ==
    [type |-> "FetchMoreEmailsMsg", Offset |-> off, AccountID |-> id,
     Mailbox |-> mailbox]

fetchMoreCmds(m) ==
    IF m.currentAccountID = ""
    THEN [i \in 1..Len(m.accounts) |->
             FetchMoreEmailsMsg(Len(MapGet(m.emailsByAccount, m.accounts[i].ID)),
                                m.accounts[i].ID, m.mailbox)]
    ELSE <<FetchMoreEmailsMsg(Len(MapGet(m.emailsByAccount, m.currentAccountID)),
                              m.currentAccountID, m.mailbox)>>

\* list.Model.Update of the bubbles list, for what the screen reads of it:
\* the cursor and whether the filter is being typed
listUpdate(l, msg) ==
    IF msg.type # "KeyMsg" THEN l
    ELSE IF l.filterState = "filtering"
    THEN IF msg.key \in {"esc", "enter"}
         THEN [l EXCEPT !.filterState = "unfiltered", !.index = 0]
         ELSE l
    ELSE IF msg.key = "down"
    THEN [l EXCEPT !.index = IF @ < Len(l.items) - 1 THEN @ + 1 ELSE @]
    ELSE IF msg.key = "up"
    THEN [l EXCEPT !.index = IF @ > 0 THEN @ - 1 ELSE @]
    ELSE IF msg.key = "/"
    THEN [l EXCEPT !.filterState = "filtering"]
    ELSE l

\* the tail of Inbox.Update: the list handles the message, then fetch more
toList(m, msg) ==
    LET m1 == [m EXCEPT !.list = listUpdate(m.list, msg)]
    IN  [m |-> m1,
         cmds |-> IF shouldFetchMore(m1) THEN fetchMoreCmds(m1) ELSE <<>>]

\* case "left", "h" / case "right", "l"
switchTab(m, step) ==
    LET moved == m.activeTabIndex + step
        idx == IF moved < 0 THEN Len(m.tabs) - 1
               ELSE IF moved >= Len(m.tabs) THEN 0
               ELSE moved
    IN  updateList([m EXCEPT !.activeTabIndex = idx,
                             !.currentAccountID = m.tabs[idx + 1].ID])

SelectedCmd(m, type) ==
    LET e == m.list.items[m.list.index + 1]
    IN  [type |-> type, UID |-> e.UID, AccountID |-> e.AccountID,
         Mailbox |-> m.mailbox]

\* case tea.KeyMsg
inboxKey(m, msg) ==
    IF m.list.filterState = "filtering" THEN toList(m, msg)
    ELSE IF msg.key \in {"left", "right"} /\ Len(m.tabs) > 1
    THEN [m |-> switchTab(m, IF msg.key = "left" THEN -1 ELSE 1), cmds |-> <<>>]
    ELSE IF msg.key \in {"d", "a", "enter"} /\ m.list.items # <<>>
    THEN [m |-> m,
          cmds |-> <<SelectedCmd(m, IF msg.key = "d" THEN "DeleteEmailMsg"
                                    ELSE IF msg.key = "a" THEN "ArchiveEmailMsg"
                                    ELSE "ViewEmailMsg")>>]
    ELSE IF msg.key = "r"
    THEN [m |-> m, cmds |-> <<[type |-> "RequestRefreshMsg", Mailbox |-> m.mailbox]>>]
    ELSE toList(m, msg)

RECURSIVE SortPass(_, _, _)
\* for i ... for j := i + 1 ... if allEmails[j].Date.After(allEmails[i].Date) swap
SortPass(a, i, j) ==
    IF i > Len(a) THEN a
    ELSE IF j > Len(a) THEN SortPass(a, i + 1, i + 2)
    ELSE IF a[j].Date > a[i].Date
    THEN SortPass([a EXCEPT ![i] = a[j], ![j] = a[i]], i, j + 1)
    ELSE SortPass(a, i, j + 1)

SortByDate(a) == SortPass(a, 1, 2)

\* for _, emails := range msg.EmailsByAccount { allEmails = append(allEmails, emails...) }
FlattenIn(f, order) == Cat([i \in 1..Len(order) |-> f[order[i]]])

\* case EmailsAppendedMsg
emailsAppended(m, msg) ==
    updateList(
        [m EXCEPT !.isFetching = FALSE,
                  !.allEmails = @ \o msg.Emails,
                  !.emailsByAccount =
                      [k \in (DOMAIN @) \cup DOMAIN GroupByAccount(msg.Emails) |->
                          MapGet(@, k) \o MapGet(GroupByAccount(msg.Emails), k)]])

\* case EmailsRefreshedMsg; order is the order the range over the map takes
emailsRefreshed(m, msg) ==
    updateList(
        [m EXCEPT !.isRefreshing = FALSE,
                  !.emailsByAccount = msg.EmailsByAccount,
                  !.allEmails =
                      SortByDate(FlattenIn(msg.EmailsByAccount, msg.order))])

\* func (m *Inbox) Update(msg tea.Msg) (tea.Model, tea.Cmd)
InboxUpdate(m, msg) ==
    IF msg.type = "KeyMsg" THEN inboxKey(m, msg)
    ELSE IF msg.type = "WindowSizeMsg" THEN [m |-> m, cmds |-> <<>>]
    ELSE IF msg.type = "FetchingMoreEmailsMsg"
    THEN [m |-> [m EXCEPT !.isFetching = TRUE], cmds |-> <<>>]
    ELSE IF msg.type \in {"EmailsAppendedMsg", "RefreshingEmailsMsg",
                          "EmailsRefreshedMsg"} /\ msg.Mailbox # m.mailbox
    THEN [m |-> m, cmds |-> <<>>]
    ELSE IF msg.type = "EmailsAppendedMsg"
    THEN [m |-> emailsAppended(m, msg), cmds |-> <<>>]
    ELSE IF msg.type = "RefreshingEmailsMsg"
    THEN [m |-> [m EXCEPT !.isRefreshing = TRUE], cmds |-> <<>>]
    ELSE IF msg.type = "EmailsRefreshedMsg"
    THEN [m |-> emailsRefreshed(m, msg), cmds |-> <<>>]
    ELSE toList(m, msg)

\* Mutant of RemoveEmail: the all-emails list is filtered by UID alone.
RemoveEmailAnyAccount(m, uid, accountID) ==
    updateList(
        [m EXCEPT !.emailsByAccount =
                      IF accountID \in DOMAIN @
                      THEN MapPut(@, accountID,
                                  SelectSeq(@[accountID], LAMBDA e : e.UID # uid))
                      ELSE @,
                  !.allEmails = SelectSeq(@, LAMBDA e : e.UID # uid)])

\* func (m *Inbox) RemoveEmail(uid uint32, accountID string)
RemoveEmail(m, uid, accountID) ==
    updateList(
        [m EXCEPT !.emailsByAccount =
                      IF accountID \in DOMAIN @
                      THEN MapPut(@, accountID,
                                  SelectSeq(@[accountID], LAMBDA e : e.UID # uid))
                      ELSE @,
                  !.allEmails =
                      SelectSeq(@, LAMBDA e : ~(e.UID = uid /\ e.AccountID = accountID))])

\* func (m *Inbox) SetEmails(emails []fetcher.Email, accounts []config.Account)
SetEmails(m, emails, accounts) ==
    updateList([m EXCEPT !.accounts = accounts,
                         !.allEmails = emails,
                         !.tabs = SetEmailsTabs(accounts),
                         !.emailsByAccount = GroupByAccount(emails)])

\* the messages an Inbox is sent
InboxKeys == {"left", "right", "d", "a", "r", "enter", "down", "up", "/", "esc"}
KeyMsgOf(key) == [type |-> "KeyMsg", key |-> key]
Mailboxes == {"inbox", "sent"}
AccountIDs == {AllAccounts[i].ID : i \in 1..Len(AllAccounts)}

Orders(S) ==
    {p \in [1..Cardinality(S) -> S] : \A i, j \in 1..Cardinality(S) : p[i] = p[j] => i = j}

PlainMsgs ==
    {[type |-> t] : t \in {"WindowSizeMsg", "FetchingMoreEmailsMsg", "spinner.TickMsg"}}
        \cup {[type |-> "RefreshingEmailsMsg", Mailbox |-> mb] : mb \in Mailboxes}

\* fetcher: the emails of one account, appended to the mailbox they came from
AppendedMsgs ==
    {[type |-> "EmailsAppendedMsg", Mailbox |-> "inbox", AccountID |-> acc, Emails |-> l] :
        acc \in {"a", "b"}, l \in EmailLists}
      \cup {[type |-> "EmailsAppendedMsg", Mailbox |-> "sent", AccountID |-> "a",
             Emails |-> <<Email(1, "a", 2)>>]}

RefreshedMaps ==
    UNION {{g \in [K -> EmailLists] : \A k \in K : g[k] \in EmailsOf(k)} :
              K \in SUBSET {"a", "b"}}

\* fetcher: the emails of every account, keyed by the account they came from
RefreshedMsgs ==
    UNION {{[type |-> "EmailsRefreshedMsg", Mailbox |-> "inbox",
             EmailsByAccount |-> f, order |-> o] : o \in Orders(DOMAIN f)} :
              f \in {g \in RefreshedMaps :
                        Len(FlattenIn(g, CHOOSE o \in Orders(DOMAIN g) : TRUE))
                            <= MaxEmails}}
      \cup {[type |-> "EmailsRefreshedMsg", Mailbox |-> "sent",
             EmailsByAccount |-> <<>>, order |-> <<>>]}

Held(m) == Len(m.allEmails)

InitInbox ==
    /\ env = EnvOf("xterm", "basic", {})
    /\ pc = "inbox"
    /\ \E emails \in EmailLists, accounts \in AccountLists :
          inbox = [k \in {"inbox"} |-> NewInboxWithMailbox(emails, accounts, "inbox")]
    /\ activeView = "" /\ emailView = NoEmailView /\ fetch = NoFetch
    /\ payload = "" /\ enc = NoEnc /\ other = NoCall /\ composer = NoComposer
    /\ scan = NoScan
    /\ rawBody = <<>> /\ inlineList = <<>> /\ disableImages = FALSE
    /\ inline = <<>> /\ inlineNil = TRUE /\ doc = <<>> /\ quoteData = <<>>
    /\ imgTodo = <<>> /\ text = <<>> /\ result = <<>> /\ err = ""
    /\ httpLog = <<>> /\ imgLog = <<>> /\ stages = <<>>

InboxFrame ==
    UNCHANGED <<env, pc, renderVars, encodeVars, other, composer, activeView,
                emailView, fetch, scan>>

InboxKeyMsg ==
    /\ pc = "inbox"
    /\ \E key \in InboxKeys :
          inbox' = [inbox EXCEPT !["inbox"] = InboxUpdate(@, KeyMsgOf(key)).m]
    /\ InboxFrame

InboxOtherMsg ==
    /\ pc = "inbox"
    /\ \E msg \in PlainMsgs \cup AppendedMsgs \cup RefreshedMsgs :
          /\ msg.type = "EmailsAppendedMsg" =>
                /\ msg.Emails \in EmailsOf(msg.AccountID)
                /\ Held(inbox["inbox"]) + Len(msg.Emails) <= MaxEmails
          /\ inbox' = [inbox EXCEPT !["inbox"] = InboxUpdate(@, msg).m]
    /\ InboxFrame

InboxRemoveEmail ==
    /\ pc = "inbox"
    /\ \E uid \in 1..2, acc \in {"a", "b"} :
          inbox' = [inbox EXCEPT !["inbox"] = RemoveEmail(@, uid, acc)]
    /\ InboxFrame

InboxSetEmails ==
    /\ pc = "inbox"
    /\ \E emails \in EmailLists, accounts \in AccountLists :
          inbox' = [inbox EXCEPT !["inbox"] = SetEmails(@, emails, accounts)]
    /\ InboxFrame

NextInbox == InboxKeyMsg \/ InboxOtherMsg \/ InboxRemoveEmail \/ InboxSetEmails

SpecInbox == InitInbox /\ [][NextInbox]_vars

\* Pagination: mainModel.Update with the Inbox as the current view.  The
\* view gets every message first; FetchMoreEmailsMsg is answered with
\* FetchingMoreEmailsMsg and a fetchEmails command, whose result comes back
\* as a message.  Equal messages in flight are held once.

paginationLimit == 20

\* the mailbox on the server, newest first, by account
Server ==
    [a |-> <<Email(1, "a", 2), Email(2, "a", 1)>>, b |-> <<Email(1, "b", 1)>>]

\* FetchMailboxEmails(account, mailbox, limit, offset) when it succeeds
Page(id, off) ==
    IF off >= Len(Server[id]) THEN <<>>
    ELSE SubSeq(Server[id], off + 1, Min(off + paginationLimit, Len(Server[id])))

FetchErr == [type |-> "FetchErr"]
FetchingMoreEmailsMsg == [type |-> "FetchingMoreEmailsMsg"]
FetchedMsg(type, id, emails) ==
    [type |-> type, Mailbox |-> "inbox", AccountID |-> id, Emails |-> emails]

\* fetchEmails(account, paginationLimit, offset, mailbox): the message the
\* command returns; ok is whether the IMAP call succeeded
fetchEmails(c, ok) ==
    IF ~ok THEN FetchErr
    ELSE IF c.Offset = 0 THEN FetchedMsg("EmailsFetchedMsg", c.AccountID, Page(c.AccountID, 0))
    ELSE FetchedMsg("EmailsAppendedMsg", c.AccountID, Page(c.AccountID, c.Offset))

\* m.config.GetAccountByID(id) != nil
GetAccountByID(accounts, id) == \E i \in 1..Len(accounts) : accounts[i].ID = id

\* mainModel.Update(msg): the new Inbox, the main model's emailsByAcct, and
\* the messages and fetch commands the returned command stands for; order is
\* the order flattenAndSort ranges over the map in
MainUpdate(ib, byAcct, msg, order) ==
    LET r == InboxUpdate(ib, msg)
    IN  IF msg.type = "FetchMoreEmailsMsg"
        THEN IF msg.AccountID = "" \/ ~GetAccountByID(ib.accounts, msg.AccountID)
             THEN [inbox |-> r.m, byAcct |-> byAcct, msgs |-> {}, running |-> {}]
             ELSE [inbox |-> r.m, byAcct |-> byAcct,
                   msgs |-> {FetchingMoreEmailsMsg},
                   running |-> {[AccountID |-> msg.AccountID, Offset |-> msg.Offset]}]
        ELSE IF msg.type = "EmailsAppendedMsg"
        THEN [inbox |-> r.m,
              byAcct |-> MapPut(byAcct, msg.AccountID,
                                MapGet(byAcct, msg.AccountID) \o msg.Emails),
              msgs |-> {}, running |-> {}]
        ELSE IF msg.type = "EmailsFetchedMsg"
        THEN LET by1 == MapPut(byAcct, msg.AccountID, msg.Emails)
                 set == SetEmails(r.m, SortByDate(FlattenIn(by1, order)), ib.accounts)
             IN  [inbox |-> InboxUpdate(set, [type |-> "WindowSizeMsg"]).m,
                  byAcct |-> by1, msgs |-> {}, running |-> {}]
        ELSE [inbox |-> r.m, byAcct |-> byAcct, msgs |-> SeqToSet(r.cmds),
              running |-> {}]

\* what has been fetched of an account when the Inbox is built
Fetched0 ==
    {f \in [{"a", "b"} -> EmailLists] :
        \A id \in {"a", "b"} :
            \E n \in 0..Len(Server[id]) : f[id] = SubSeq(Server[id], 1, n)}

FetchKeys == {"down", "up", "left", "right"}
MaxOffset == 6
FetchMsgs ==
    {FetchErr, FetchingMoreEmailsMsg}
        \cup {FetchMoreEmailsMsg(off, id, "inbox") : off \in 0..MaxOffset, id \in {"a", "b"}}
        \cup {fetchEmails([AccountID |-> id, Offset |-> off], TRUE) :
                  off \in 0..MaxOffset, id \in {"a", "b"}}
FetchCmds == [AccountID : {"a", "b"}, Offset : 0..MaxOffset]

InitFetch ==
    /\ env = EnvOf("xterm", "basic", {})
    /\ pc = "fetch"
    /\ \E f \in Fetched0, n \in 1..2 :
          LET accounts == SubSeq(AllAccounts, 1, n)
              by == [id \in {accounts[i].ID : i \in 1..n} |-> f[id]]
          IN  /\ inbox = [k \in {"inbox"} |->
                            NewInboxWithMailbox(SortByDate(FlattenIn(by, SubSeq(<<"a", "b">>, 1, n))),
                                                accounts, "inbox")]
              /\ fetch = [msgs |-> {}, running |-> {}, emailsByAcct |-> by]
    /\ activeView = "" /\ emailView = NoEmailView
    /\ payload = "" /\ enc = NoEnc /\ other = NoCall /\ composer = NoComposer
    /\ scan = NoScan
    /\ rawBody = <<>> /\ inlineList = <<>> /\ disableImages = FALSE
    /\ inline = <<>> /\ inlineNil = TRUE /\ doc = <<>> /\ quoteData = <<>>
    /\ imgTodo = <<>> /\ text = <<>> /\ result = <<>> /\ err = ""
    /\ httpLog = <<>> /\ imgLog = <<>> /\ stages = <<>>

FetchFrame ==
    UNCHANGED <<env, pc, renderVars, encodeVars, other, composer, activeView,
                emailView, scan>>

\* the program hands msg to mainModel.Update
Handle(msg, rest) ==
    \E order \in Orders(DOMAIN MapPut(fetch.emailsByAcct,
                                      IF msg.type = "EmailsFetchedMsg"
                                      THEN msg.AccountID ELSE "a", <<>>)) :
        LET r == MainUpdate(inbox["inbox"], fetch.emailsByAcct, msg, order)
        IN  /\ inbox' = [inbox EXCEPT !["inbox"] = r.inbox]
            /\ fetch' = [msgs |-> rest \cup r.msgs,
                         running |-> fetch.running \cup r.running,
                         emailsByAcct |-> r.byAcct]

\* a key pressed on the Inbox, while nothing is in flight
FetchKeyMsg ==
    /\ pc = "fetch"
    /\ fetch.msgs = {} /\ fetch.running = {}
    /\ \E key \in FetchKeys : Handle(KeyMsgOf(key), fetch.msgs)
    /\ FetchFrame

\* a message in flight is delivered
Deliver(msg) ==
    /\ pc = "fetch"
    /\ msg \in fetch.msgs
    /\ Handle(msg, fetch.msgs \ {msg})
    /\ FetchFrame

\* a fetchEmails command returns
FetchDone(c) ==
    /\ pc = "fetch"
    /\ c \in fetch.running
    /\ \E ok \in BOOLEAN :
          fetch' = [fetch EXCEPT !.running = @ \ {c},
                                 !.msgs = @ \cup {fetchEmails(c, ok)}]
    /\ UNCHANGED inbox
    /\ FetchFrame

NextFetch ==
    \/ FetchKeyMsg
    \/ \E msg \in FetchMsgs : Deliver(msg)
    \/ \E c \in FetchCmds : FetchDone(c)

SpecFetch == InitFetch /\ [][NextFetch]_vars

\* Bubble Tea runs every command in a goroutine of its own and its event
\* loop handles every message sent to it; an IMAP call returns or fails.
FairFetch ==
    /\ \A msg \in FetchMsgs : WF_vars(Deliver(msg))
    /\ \A c \in FetchCmds : WF_vars(FetchDone(c))

SpecFetchLive == SpecFetch /\ FairFetch

\* TrashArchive: two inboxes and the one shown.

NewTrashArchive(trashEmails, archiveEmails, accounts) ==
    [inbox |-> [k \in {"trash", "archive"} |->
                   NewInboxWithMailbox(IF k = "trash" THEN trashEmails
                                       ELSE archiveEmails, accounts, k)],
     activeView |-> "trash"]

\* func (m *TrashArchive) RemoveEmail(uid, accountID, mailbox)
TrashArchiveRemoveEmail(boxes, uid, accountID, mailbox) ==
    IF mailbox \in {"trash", "archive"}
    THEN [boxes EXCEPT ![mailbox] = RemoveEmail(@, uid, accountID)]
    ELSE boxes

\* func (m *TrashArchive) Update(msg tea.Msg)
TrashArchiveUpdate(boxes, view, msg) ==
    IF msg.type = "KeyMsg" /\ msg.key = "tab"
    THEN [inbox |-> boxes,
          activeView |-> IF view = "trash" THEN "archive" ELSE "trash",
          cmds |-> <<>>]
    ELSE IF msg.type = "WindowSizeMsg"
    THEN [inbox |-> [k \in DOMAIN boxes |-> InboxUpdate(boxes[k], msg).m],
          activeView |-> view, cmds |-> <<>>]
    ELSE [inbox |-> [boxes EXCEPT ![view] = InboxUpdate(@, msg).m],
          activeView |-> view,
          cmds |-> IF msg.type \in {"FetchingMoreEmailsMsg", "EmailsAppendedMsg",
                                    "RefreshingEmailsMsg", "EmailsRefreshedMsg"}
                   THEN <<>> ELSE InboxUpdate(boxes[view], msg).cmds]

TrashArchiveKeys == {"tab"}

\* the fetcher's messages for the mailbox m
MsgsFor(m) ==
    {[msg EXCEPT !.Mailbox = m] :
        msg \in {x \in AppendedMsgs \cup RefreshedMsgs : x.Mailbox = "inbox"}}
      \cup {[type |-> "WindowSizeMsg"]}

MailboxMsgs == [m \in {"trash", "archive"} |-> MsgsFor(m)]

\* messages of a mailbox the screen does not show
StrayMsgs == {x \in AppendedMsgs \cup RefreshedMsgs : x.Mailbox = "sent"}

InitTrashArchive ==
    /\ env = EnvOf("xterm", "basic", {})
    /\ pc = "trasharchive"
    /\ \E t \in EmailLists, a \in EmailLists :
          /\ inbox = NewTrashArchive(t, a, AllAccounts).inbox
          /\ activeView = NewTrashArchive(t, a, AllAccounts).activeView
    /\ emailView = NoEmailView /\ fetch = NoFetch
    /\ payload = "" /\ enc = NoEnc /\ other = NoCall /\ composer = NoComposer
    /\ scan = NoScan
    /\ rawBody = <<>> /\ inlineList = <<>> /\ disableImages = FALSE
    /\ inline = <<>> /\ inlineNil = TRUE /\ doc = <<>> /\ quoteData = <<>>
    /\ imgTodo = <<>> /\ text = <<>> /\ result = <<>> /\ err = ""
    /\ httpLog = <<>> /\ imgLog = <<>> /\ stages = <<>>

TrashArchiveFrame ==
    UNCHANGED <<env, pc, renderVars, encodeVars, other, composer, emailView, fetch,
                scan>>

TrashArchiveMsg ==
    /\ pc = "trasharchive"
    /\ \E msg \in {KeyMsgOf(k) : k \in TrashArchiveKeys}
                     \cup MailboxMsgs[activeView] \cup StrayMsgs :
          /\ msg.type = "EmailsAppendedMsg" =>
                /\ msg.Emails \in EmailsOf(msg.AccountID)
                /\ Held(inbox[activeView]) + Len(msg.Emails) <= MaxEmails
          /\ LET r == TrashArchiveUpdate(inbox, activeView, msg)
             IN  inbox' = r.inbox /\ activeView' = r.activeView
    /\ TrashArchiveFrame

TrashArchiveRemove ==
    /\ pc = "trasharchive"
    /\ \E uid \in 1..2, acc \in {"a", "b"}, mb \in {"trash", "archive", "inbox"} :
          inbox' = TrashArchiveRemoveEmail(inbox, uid, acc, mb)
    /\ UNCHANGED activeView
    /\ TrashArchiveFrame

\* SetTrashEmails / SetArchiveEmails
TrashArchiveSetEmails ==
    /\ pc = "trasharchive"
    /\ \E mb \in {"trash", "archive"}, emails \in EmailLists :
          inbox' = [inbox EXCEPT ![mb] = SetEmails(@, emails, AllAccounts)]
    /\ UNCHANGED activeView
    /\ TrashArchiveFrame

NextTrashArchive == TrashArchiveMsg \/ TrashArchiveRemove \/ TrashArchiveSetEmails

SpecTrashArchive == InitTrashArchive /\ [][NextTrashArchive]_vars

-----------------------------------------------------------------------------
(* EmailView: one email, its body in a viewport and its attachment list.   *)

Attachment(name, part) == [Filename |-> name, PartID |-> part, Data |-> name]
AttachmentPool == {Attachment("a.pdf", "2"), Attachment("b.png", "3")}
AttachmentLists == SeqsUpTo(AttachmentPool, MaxAttachments)

NewEmailView(email, emailIndex, mailbox) ==
    [email |-> email,
     emailIndex |-> emailIndex,
     attachmentCursor |-> 0,
     focusOnAttachments |-> FALSE,
     accountID |-> email.AccountID,
     mailbox |-> mailbox,
     yOffset |-> 0]

\* viewport.Model.Update: the keys that scroll the body by a line, for a
\* body MaxScroll lines longer than the window
viewportUpdate(m, msg) ==
    IF msg.type # "KeyMsg" THEN m
    ELSE IF msg.key = "down" THEN [m EXCEPT !.yOffset = Min(@ + 1, MaxScroll)]
    ELSE IF msg.key = "up" THEN [m EXCEPT !.yOffset = IF @ > 0 THEN @ - 1 ELSE 0]
    ELSE m

DownloadAttachmentMsg(m) ==
    LET selected == m.email.Attachments[m.attachmentCursor + 1]
    IN  [type |-> "DownloadAttachmentMsg", Index |-> m.emailIndex,
         Filename |-> selected.Filename, PartID |-> selected.PartID,
         Data |-> selected.Data, AccountID |-> m.accountID, Mailbox |-> m.mailbox]

\* Mutant of attachmentKeys: Down moves the cursor without looking at the
\* number of attachments.
attachmentKeysUnclamped(m, key) ==
    IF key = "up"
    THEN [m |-> [m EXCEPT !.attachmentCursor = IF @ > 0 THEN @ - 1 ELSE @], ret |-> FALSE,
          cmds |-> <<>>]
    ELSE IF key = "down"
    THEN [m |-> [m EXCEPT !.attachmentCursor = @ + 1], ret |-> FALSE, cmds |-> <<>>]
    ELSE IF key = "enter" /\ Len(m.email.Attachments) > 0
    THEN [m |-> m, ret |-> TRUE, cmds |-> <<DownloadAttachmentMsg(m)>>]
    ELSE IF key = "tab"
    THEN [m |-> [m EXCEPT !.focusOnAttachments = FALSE], ret |-> FALSE, cmds |-> <<>>]
    ELSE [m |-> m, ret |-> FALSE, cmds |-> <<>>]

\* if m.focusOnAttachments { switch msg.String() ... }; ret: Update returns here
attachmentKeys(m, key) ==
    IF key = "up"
    THEN [m |-> [m EXCEPT !.attachmentCursor = IF @ > 0 THEN @ - 1 ELSE @], ret |-> FALSE,
          cmds |-> <<>>]
    ELSE IF key = "down"
    THEN [m |-> [m EXCEPT !.attachmentCursor =
                     IF @ < Len(m.email.Attachments) - 1 THEN @ + 1 ELSE @],
          ret |-> FALSE, cmds |-> <<>>]
    ELSE IF key = "enter" /\ Len(m.email.Attachments) > 0
    THEN [m |-> m, ret |-> TRUE, cmds |-> <<DownloadAttachmentMsg(m)>>]
    ELSE IF key = "tab"
    THEN [m |-> [m EXCEPT !.focusOnAttachments = FALSE], ret |-> FALSE, cmds |-> <<>>]
    ELSE [m |-> m, ret |-> FALSE, cmds |-> <<>>]

\* } else { switch msg.String() ... }
bodyKeys(m, key) ==
    IF key = "r"
    THEN [m |-> m, ret |-> TRUE, cmds |-> <<[type |-> "ReplyToEmailMsg", Email |-> m.email]>>]
    ELSE IF key \in {"d", "a"}
    THEN [m |-> m, ret |-> TRUE,
          cmds |-> <<[type |-> IF key = "d" THEN "DeleteEmailMsg" ELSE "ArchiveEmailMsg",
                      UID |-> m.email.UID, AccountID |-> m.accountID,
                      Mailbox |-> m.mailbox]>>]
    ELSE IF key = "tab" /\ Len(m.email.Attachments) > 0
    THEN [m |-> [m EXCEPT !.focusOnAttachments = TRUE], ret |-> FALSE, cmds |-> <<>>]
    ELSE [m |-> m, ret |-> FALSE, cmds |-> <<>>]

\* func (m *EmailView) Update(msg tea.Msg) (tea.Model, tea.Cmd)
EmailViewUpdate(m, msg) ==
    IF msg.type # "KeyMsg" THEN [m |-> viewportUpdate(m, msg), cmds |-> <<>>]
    ELSE IF msg.key = "esc"
    THEN IF m.focusOnAttachments
         THEN [m |-> [m EXCEPT !.focusOnAttachments = FALSE], cmds |-> <<>>]
         ELSE [m |-> m, cmds |-> <<[type |-> "BackToMailboxMsg", Mailbox |-> m.mailbox]>>]
    ELSE LET r == IF m.focusOnAttachments THEN attachmentKeys(m, msg.key)
                  ELSE bodyKeys(m, msg.key)
         IN  IF r.ret THEN [m |-> r.m, cmds |-> r.cmds]
             ELSE [m |-> viewportUpdate(r.m, msg), cmds |-> <<>>]

EmailViewKeys == {"esc", "up", "down", "enter", "tab", "r", "d", "a"}
EmailViewMsgs == {KeyMsgOf(k) : k \in EmailViewKeys} \cup {[type |-> "WindowSizeMsg"]}

InitEmailView ==
    /\ env = EnvOf("xterm", "basic", {})
    /\ pc = "emailview"
    /\ \E atts \in AttachmentLists, idx \in 0..1, mb \in Mailboxes :
          emailView = NewEmailView([UID |-> 1, AccountID |-> "a", Attachments |-> atts],
                                   idx, mb)
    /\ inbox = NoInbox /\ activeView = "" /\ fetch = NoFetch
    /\ payload = "" /\ enc = NoEnc /\ other = NoCall /\ composer = NoComposer
    /\ scan = NoScan
    /\ rawBody = <<>> /\ inlineList = <<>> /\ disableImages = FALSE
    /\ inline = <<>> /\ inlineNil = TRUE /\ doc = <<>> /\ quoteData = <<>>
    /\ imgTodo = <<>> /\ text = <<>> /\ result = <<>> /\ err = ""
    /\ httpLog = <<>> /\ imgLog = <<>> /\ stages = <<>>

EmailViewMsg ==
    /\ pc = "emailview"
    /\ \E msg \in EmailViewMsgs : emailView' = EmailViewUpdate(emailView, msg).m
    /\ UNCHANGED <<env, pc, renderVars, encodeVars, other, composer, inbox, activeView,
                   fetch, scan>>

NextEmailView == EmailViewMsg

SpecEmailView == InitEmailView /\ [][NextEmailView]_vars

-----------------------------------------------------------------------------
(* The line loop of styleQuotedReplies, one iteration at a time.           *)

Header2 == <<"On ", "d2", ", ", "s2", " wrote:">>

\* the lines a text is made of: a word, nothing, quoted lines with and
\* without the space after the marker and an indented one with two spaces
\* after it, and the reply headers of two senders
LineKinds ==
    {<<"w1">>, <<>>, <<">", " ", "q1">>, <<">", "q2">>,
     <<" ", ">", " ", " ", "q3">>, HeaderLine, Header2}

IsBox(entry) == entry # <<>> /\ entry[1] = BoxTop

\* lines: strings.Split(text, "\n"), never empty;
\* boxes: the calls of renderQuoteBox so far, each with its arguments, the
\* index of the first quoted line of its block and the index of the line at
\* which it was made (Len(lines) + 1 for the one after the loop);
\* first: the index of the first quoted line of the pending block, or 0
InitScan ==
    /\ env = EnvOf("xterm", "basic", {})
    /\ pc = "scan"
    /\ \E lines \in SeqsUpTo(LineKinds, MaxLines) \ {<<>>} :
          scan = [lines |-> lines, i |-> 0, st |-> QuoteScanInit, first |-> 0,
                  boxes |-> <<>>, out |-> <<>>]
    /\ inbox = NoInbox /\ activeView = "" /\ emailView = NoEmailView /\ fetch = NoFetch
    /\ payload = "" /\ enc = NoEnc /\ other = NoCall /\ composer = NoComposer
    /\ rawBody = <<>> /\ inlineList = <<>> /\ disableImages = FALSE
    /\ inline = <<>> /\ inlineNil = TRUE /\ doc = <<>> /\ quoteData = <<>>
    /\ imgTodo = <<>> /\ text = <<>> /\ result = <<>> /\ err = ""
    /\ httpLog = <<>> /\ imgLog = <<>> /\ stages = <<>>

ScanFrame ==
    UNCHANGED <<env, renderVars, encodeVars, other, composer, tuiVars>>

\* the entries that a step added to result
Added(st, st1) == SubSeq(st1.result, Len(st.result) + 1, Len(st1.result))

BoxRecord(st, first, at, entry) ==
    [from |-> st.quoteFrom, date |-> st.quoteDate, lines |-> st.quoteBlock,
     first |-> first, at |-> at, text |-> entry]

\* for i := 0; i < len(lines); i++ { ... }
ScanLine ==
    /\ pc = "scan"
    /\ scan.i < Len(scan.lines)
    /\ LET i == scan.i + 1
           st == scan.st
           st1 == QuoteScanStep(st, scan.lines, i)
           quoted == HasPrefix(TrimSpace(scan.lines[i]), <<">">>)
           made == SelectSeq(Added(st, st1), IsBox)
       IN  scan' = [scan EXCEPT
                       !.i = i,
                       !.st = st1,
                       !.boxes = @ \o [k \in 1..Len(made) |->
                                          BoxRecord(st, scan.first, i, made[k])],
                       !.first = IF made # <<>> \/ ~st1.inQuote THEN 0
                                 ELSE IF quoted /\ @ = 0 THEN i
                                 ELSE @]
    /\ UNCHANGED pc
    /\ ScanFrame

\* the remaining block, and strings.Join(result, "\n")
ScanEnd ==
    /\ pc = "scan"
    /\ scan.i = Len(scan.lines)
    /\ LET st == scan.st
           last == st.inQuote /\ st.quoteBlock # <<>>
           box == renderQuoteBox(st.quoteFrom, st.quoteDate, st.quoteBlock)
       IN  scan' = [scan EXCEPT
                       !.boxes = IF last
                                 THEN Append(@, BoxRecord(st, scan.first,
                                                          Len(scan.lines) + 1, box))
                                 ELSE @,
                       !.st.result = IF last THEN Append(@, box) ELSE @,
                       !.out = Join(IF last THEN Append(st.result, box) ELSE st.result)]
    /\ pc' = "scanned"
    /\ ScanFrame

NextScan == ScanLine \/ ScanEnd

SpecScan == InitScan /\ [][NextScan]_vars

-----------------------------------------------------------------------------
(* Properties of the render call.                                          *)

Rendered == pc = "done" /\ err = ""
ParseFailed == stages # <<>> /\ stages[Len(stages)] = "parse failed"

\* The nodes of a forest that are not below an element with one of the tags,
\* nor (unless underLinks) below an <a> that has an href.
RECURSIVE NodesOutside(_, _, _)
NodesOutside(f, tags, underLinks) ==
    IF f = <<>> THEN <<>>
    ELSE <<Head(f)>>
         \o (IF Head(f).tag \in tags
                \/ (~underLinks /\ Head(f).tag = "a" /\ Head(f).hasUrl)
             THEN <<>>
             ELSE NodesOutside(Head(f).kids, tags, underLinks))
         \o NodesOutside(Tail(f), tags, underLinks)


\* every <a href> of the raw body
AllAnchors == {n \in SeqToSet(Flatten(rawBody)) : n.tag = "a" /\ n.hasUrl}
\* the <a href> elements outside every blockquote, h1 and h2
TopAnchors ==
    {n \in SeqToSet(NodesOutside(rawBody, {"blockquote", "h1", "h2"}, TRUE)) :
        n.tag = "a" /\ n.hasUrl}
\* every <img src> of the raw body
AllImgs == {n \in SeqToSet(Flatten(rawBody)) : n.tag = "img" /\ n.hasUrl}
\* the <img src> elements outside every blockquote, h1, h2 and <a href>
TopImgs ==
    {n \in SeqToSet(NodesOutside(rawBody, {"blockquote", "h1", "h2"}, FALSE)) :
        n.tag = "img" /\ n.hasUrl}

ImgLogged(id) == \E i \in 1..Len(imgLog) : imgLog[i].id = id
ImgShown(id, how) ==
    \E i \in 1..Len(imgLog) : imgLog[i].id = id /\ imgLog[i].shown = how

AltOf(n) == IF n.alt = <<>> THEN <<"Does not contain alt text">> ELSE n.alt

\* the textual fallback of an image as it reads in the output
FallbackText(src, alt) ==
    IF hyperlinkSupported
    THEN <<"ESC]8;;">> \o src
         \o <<"BEL", "\n", " ", "[Click here to view image: ">> \o alt
         \o <<"]", " ", "\n", "ESC]8;;", "BEL">>
    ELSE <<"[Image: ">> \o alt \o <<", ">> \o src \o <<"]">>

ImageEscapeStarts == {KittyFirst, KittyNext, Iterm2Start}
NoImageEscape(t) == \A i \in 1..Len(t) : t[i] \notin ImageEscapeStarts
NoEscapeAtAll(t) ==
    \A i \in 1..Len(t) : t[i] \notin ImageEscapeStarts \cup {"ESC]8;;"}

\* C1: the call returns an error only when parsing the document fails; a
\* quoted-printable failure, a Markdown failure, a missing CID and a failed
\* image fetch leave err empty, and a call that returns without a parse
\* failure hands back the styled text.
C1_ErrorOnlyFromParse ==
    /\ err # "" => pc = "done" /\ ParseFailed /\ result = <<>>
    /\ (pc = "done" /\ ~ParseFailed) =>
          err = "" /\ result = StyleRender("body", text)

\* C1 witness: a call that returned a rendered string although both the
\* quoted-printable decoding and the Markdown conversion failed.
C1_Witness ==
    /\ Rendered
    /\ \E i \in 1..Len(stages) : stages[i] = "decode failed"
    /\ \E i \in 1..Len(stages) : stages[i] = "markdown failed"
    /\ Contains(result, <<"w1", "=2C", CtrlByte>>)

\* the lines of the plain-text paragraphs of a body
PlainLines(body) ==
    UNION {SeqToSet(Split(body[i].toks)) : i \in 1..Len(body)}
IsPlainText(body) == \A i \in 1..Len(body) : body[i].tag = "md:p"

\* C2 (as stated, refuted): every line of a plain-text body is contained in
\* the output, a lone "On <date>, <sender> wrote:" line included.
C2_PlainLinesKept ==
    (Rendered /\ IsPlainText(rawBody)) =>
        \A line \in PlainLines(rawBody) : Contains(result, line)

\* one anchor as the claim describes its rendering
AnchorRendered(n) ==
    LET U == n.url
        T == NodeText(n)
    IN  IF hyperlinkSupported
        THEN /\ Contains(result, <<"ESC]8;;">> \o U \o <<"BEL">>
                                  \o (IF T = <<>> THEN U ELSE T)
                                  \o <<"ESC]8;;", "BEL">>)
             /\ ~Contains(result, <<"<">> \o U \o <<">">>)
        ELSE IF T = <<>> \/ T = U
        THEN /\ Contains(result, <<"<">> \o U \o <<">">>)
             /\ ~Contains(result, U \o <<" ", "<">> \o U \o <<">">>)
        ELSE Contains(result, T \o <<" ", "<">> \o U \o <<">">>)

\* without hyperlinks, "<U>" appears once for each anchor of the set
BracketOnce(anchors) ==
    ~hyperlinkSupported =>
        \A n \in anchors :
            Count(result, <<"<">> \o n.url \o <<">">>)
                = Cardinality({m \in anchors : m.url = n.url})

\* C3 (amended): every <a href=U>T</a> that is outside every blockquote, h1
\* and h2 is rendered as OSC-8 around T when hyperlinks are supported, and as
\* "T <U>", or "<U>" alone when T is U or empty, when they are not.
C3_TopAnchorsRendered ==
    Rendered => /\ \A n \in TopAnchors : AnchorRendered(n)
                /\ BracketOnce(TopAnchors)

\* C3 witness: without hyperlink support a top-level anchor reads "t1 <U>".
C3_Witness ==
    /\ Rendered /\ ~hyperlinkSupported /\ TopAnchors # {}
    /\ Contains(result, <<"t1", " ", "<">> \o Href \o <<">">>)

\* C3 (as stated, refuted): the same of every <a href> of the body.
C3_AllAnchorsRendered ==
    Rendered => /\ \A n \in AllAnchors : AnchorRendered(n)
                /\ BracketOnce(AllAnchors)

\* C4 (amended): every <img src> that is outside every blockquote, h1, h2
\* and <a href> is visited by the image step; when no protocol is detected,
\* images are disabled or no payload is obtained it is not rendered inline,
\* and when it is not rendered inline the output carries its textual
\* fallback, "[Click here to view image: A]" inside an OSC-8 link to src
\* with hyperlinks and "[Image: A, src]" without.
C4_TopImgsFallBack ==
    Rendered =>
        \A n \in TopImgs :
            /\ \E i \in 1..Len(imgLog) :
                  /\ imgLog[i].id = n.id
                  /\ (disableImages \/ ~imageProtocolSupported
                        \/ imgLog[i].payload = "") => imgLog[i].shown = "fallback"
            /\ ~ImgShown(n.id, "inline") =>
                  Contains(result, FallbackText(n.url, AltOf(n)))

\* C4 witness: with hyperlinks, an image without alt text falls back to the
\* clickable form with the default alt text.
C4_Witness ==
    /\ Rendered /\ hyperlinkSupported
    /\ \E n \in TopImgs : n.alt = <<>> /\ ImgShown(n.id, "fallback")
    /\ Contains(result, <<"[Click here to view image: ",
                          "Does not contain alt text", "]">>)

\* C4 (as stated, refuted): every <img src> of the body that is not rendered
\* inline has its textual fallback in the output.
C4_AllImgsFallBack ==
    Rendered =>
        \A n \in AllImgs :
            ~ImgShown(n.id, "inline") =>
                Contains(result, FallbackText(n.url, AltOf(n)))

KittyFamily ==
    kittySupported \/ ghosttySupported \/ weztermSupported \/ waystSupported
        \/ konsoleSupported
Iterm2Family == iterm2Supported \/ warpSupported

\* how the image escape sequence of a payload begins on this terminal
EscapeOf(p) ==
    IF KittyFamily
    THEN <<"ESC_Gf=100,a=T,q=2,C=1,m=",
           IF PayLen(p) > chunkSize THEN "1" ELSE "0", ";",
           Slice(p, 0, Min(chunkSize, PayLen(p)))>>
    ELSE <<"ESC]1337;File=inline=1:", p, "BEL">>

InlineShown == {i \in 1..Len(imgLog) : imgLog[i].shown = "inline"}

\* C5: with images enabled and a protocol detected, an <img src="cid:X"> the
\* image step visits shows as that protocol's escape sequence, without its
\* textual fallback, exactly when the inline map holds a non-empty payload
\* for X; otherwise it shows as the fallback.  The output has one image
\* escape sequence for each image shown inline and no other.
C5_CidInlineIffMapped ==
    (Rendered /\ ~disableImages /\ imageProtocolSupported) =>
        /\ \A i \in 1..Len(imgLog) :
              LET e == imgLog[i]
                  X == Trim(TrimPrefix(e.src, <<"cid:">>), {"<", ">"})
                  held == ~inlineNil /\ MapLookup(inline, X) # ""
              IN  HasPrefix(e.src, <<"cid:">>) =>
                    IF held
                    THEN /\ e.shown = "inline"
                         /\ Contains(result, EscapeOf(inline[X]))
                         /\ ~Contains(result, FallbackText(e.src, e.alt))
                    ELSE /\ e.shown = "fallback"
                         /\ Contains(result, FallbackText(e.src, e.alt))
        /\ Count(result, <<KittyFirst>>) + Count(result, <<Iterm2Start>>)
              = Cardinality(InlineShown)

\* C5 witness: on a Kitty terminal a cid: image whose payload the caller
\* supplied under " <x1>" is shown with the Kitty prefix.
C5_Witness ==
    /\ Rendered /\ ~disableImages /\ kittySupported
    /\ inlineList # <<>> /\ MapLookup(inline, <<"x1">>) = SmallPng
    /\ \E i \in 1..Len(imgLog) : imgLog[i].src = CidSrc /\ imgLog[i].shown = "inline"
    /\ Contains(result, <<KittyFirst>>)
    /\ ~Contains(result, <<"[Image: ">>)

\* the part of C6 that does not depend on which images are meant
NothingResolved ==
    /\ httpLog = <<>>
    /\ \A i \in 1..Len(imgLog) :
          imgLog[i].consulted = "none" /\ imgLog[i].payload = ""
    /\ Rendered => NoImageEscape(result)

\* C6 (amended): when images are disabled or no protocol is detected, no
\* request is issued, no data-URI or CID payload is consulted, the output
\* has no image escape sequence, and every <img src> outside every
\* blockquote, h1, h2 and <a href> is replaced by its textual fallback.
C6_NothingResolvedTopImgs ==
    (disableImages \/ ~imageProtocolSupported) =>
        /\ NothingResolved
        /\ Rendered =>
              \A n \in TopImgs :
                  /\ ImgShown(n.id, "fallback")
                  /\ Contains(result, FallbackText(n.url, AltOf(n)))

\* C6 witness: images disabled on an image-capable terminal; a remote image
\* fell back and nothing was fetched.
C6_Witness ==
    /\ Rendered /\ disableImages /\ imageProtocolSupported /\ httpLog = <<>>
    /\ \E n \in TopImgs : IsRemote(n.url) /\ ImgShown(n.id, "fallback")

\* C6 (as stated, refuted): the same, with every <img src> of the body
\* replaced by its textual fallback.
C6_NothingResolvedAllImgs ==
    (disableImages \/ ~imageProtocolSupported) =>
        /\ NothingResolved
        /\ Rendered =>
              \A n \in AllImgs : Contains(result, FallbackText(n.url, AltOf(n)))

\* C7: a remote image whose fetch failed, for whichever reason, has an empty
\* payload and is replaced by the textual fallback, the call returns no
\* error, and no URL is requested more often than there are images with
\* that src.
C7_FailedFetchFallsBack ==
    /\ \A i \in 1..Len(imgLog) :
          LET e == imgLog[i]
          IN  (e.consulted = "remote" /\ e.outcome # "ok") =>
                /\ e.payload = ""
                /\ e.shown = "fallback"
                /\ err = ""
                /\ pc = "done" => Contains(result, FallbackText(e.src, e.alt))
    /\ \A j \in 1..Len(httpLog) :
          Cardinality({k \in 1..Len(httpLog) : httpLog[k] = httpLog[j]})
            <= Cardinality({i \in 1..Len(imgLog) : imgLog[i].src = httpLog[j]})

\* C7 witness: a fetch answered with status 404; one request, the fallback.
C7_Witness ==
    /\ Rendered /\ httpLog = <<RemoteSrc>>
    /\ \E i \in 1..Len(imgLog) :
          /\ imgLog[i].outcome = "status 404"
          /\ imgLog[i].shown = "fallback"
    /\ Contains(result, <<"a1">>)

TermNeedles ==
    {"kitty", "ghostty", "wezterm", "alacritty", "foot", "tmux", "screen", "wayst"}
ProgramNeedles ==
    {"iterm.app", "hyper", "vscode", "ghostty", "wezterm", "wayst", "warp", "konsole"}

\* no terminal-identifying variable is set or carries a known name
NoSignal ==
    /\ env.set = {}
    /\ \A s \in TermNeedles : ~StrContains(ToLower(env.TERM), s)
    /\ \A s \in ProgramNeedles : ~StrContains(ToLower(env.TERM_PROGRAM), s)

\* C9: when no terminal-identifying variable matches, neither capability is
\* reported, the call fails only if the parse does, nothing is fetched, and
\* the output has no OSC-8, Kitty or iTerm2 escape sequence: anchors and
\* images read as plain text.
C9_NoSignalPlainText ==
    NoSignal =>
        /\ ~imageProtocolSupported /\ ~hyperlinkSupported
        /\ err # "" => ParseFailed
        /\ httpLog = <<>>
        /\ Rendered =>
              /\ NoEscapeAtAll(result)
              /\ \A n \in TopImgs :
                    Contains(result, <<"[Image: ">> \o AltOf(n) \o <<", ">>
                                       \o n.url \o <<"]">>)
              /\ \A n \in TopAnchors :
                    Contains(result, <<"<">> \o n.url \o <<">">>)

\* C9 witness: on the bare terminal a data-URI image reads "[Image: a1, ...".
C9_Witness ==
    /\ Rendered /\ NoSignal
    /\ Contains(result, <<"[Image: ", "a1", ", ">> \o DataSrc \o <<"]">>)

-----------------------------------------------------------------------------
(* Properties of the encoders and of the dispatch.                         *)

\* C8: with a non-empty payload, renderInlineImage answers with the Kitty
\* encoding whenever a Kitty-family identity is detected, an iTerm2-family
\* identity being detected or not; it answers with the iTerm2 encoding only
\* when an iTerm2-family identity and no Kitty-family identity is detected.
C8_KittyFamilyFirst ==
    (pc = "dispatched" /\ payload # "") =>
        /\ KittyFamily => ProtocolOf(enc.out) = "kitty"
        /\ ProtocolOf(enc.out) = "iterm2" => (Iterm2Family /\ ~KittyFamily)

\* C8 witness: konsole and iTerm2 detected together, the Kitty encoding used.
C8_Witness ==
    /\ pc = "dispatched" /\ payload = BigPng
    /\ konsoleSupported /\ iterm2Supported
    /\ ProtocolOf(enc.out) = "kitty"

CeilDiv(a, b) == (a + b - 1) \div b

\* C10: for a non-empty payload the Kitty encoder emits ceil(len/4096)
\* escape-framed chunks; each carries at most 4096 bytes, the first starts
\* at byte 0, each next one where the one before ended, and the last ends at
\* len(payload).  For the empty payload the result is empty.
C10_KittyChunksPartition ==
    enc.fn = "kittyInlineImage" =>
        IF payload = "" THEN enc.out = <<>>
        ELSE LET n == CeilDiv(PayLen(payload), 4096)
                 cs == enc.chunks
             IN  /\ Len(cs) = n
                 /\ Count(enc.out, <<KittyEnd>>) = n
                 /\ Count(enc.out, <<KittyFirst>>) = 1
                 /\ Count(enc.out, <<KittyNext>>) = n - 1
                 /\ cs[1].off = 0
                 /\ cs[n].end = PayLen(payload)
                 /\ \A i \in 1..n :
                       /\ cs[i].off < cs[i].end
                       /\ cs[i].end - cs[i].off <= 4096
                       /\ i > 1 => cs[i].off = cs[i - 1].end
                       /\ enc.out[5 * (i - 1) + 4]
                            = Slice(payload, cs[i].off, cs[i].end)
                       /\ enc.out[5 * i] = KittyEnd

\* C10 witness: a payload one byte longer than two chunks goes out in three.
C10_Witness ==
    /\ enc.fn = "kittyInlineImage"
    /\ PayLen(payload) = 2 * chunkSize + 1
    /\ Len(enc.chunks) = 3
    /\ enc.chunks[3].end - enc.chunks[3].off = 1

\* the number of chunks of an encoder result
ChunksIn(out) == Count(out, <<KittyEnd>>)

\* C11: in the Kitty encoding the first chunk alone opens with the display
\* directives, every later chunk opens with the bare continuation header;
\* the flag m is "1" on every chunk but the last and "0" on the last, so a
\* payload of at most 4096 bytes is one chunk with m=0; the row placeholder
\* comes once, after the last chunk.
C11_KittyFlagsAndPlaceholder ==
    (enc.fn = "kittyInlineImage" /\ payload # "") =>
        LET out == enc.out
            n == ChunksIn(out)
        IN  /\ n >= 1
            /\ Len(out) = 5 * n + 5
            /\ \A i \in 1..n :
                  /\ out[5 * (i - 1) + 1]
                        = (IF i = 1 THEN "ESC_Gf=100,a=T,q=2,C=1,m=" ELSE "ESC_Gm=")
                  /\ out[5 * (i - 1) + 2] = (IF i < n THEN "1" ELSE "0")
                  /\ out[5 * (i - 1) + 3] = ";"
            /\ PayLen(payload) <= 4096 => (n = 1 /\ out[2] = "0")
            /\ out[5 * n + 1] = "\n"
            /\ out[5 * n + 2] = "[[MATCHA_IMG_ROWS:"
            /\ out[5 * n + 4] = "]]"
            /\ out[5 * n + 5] = "\n"
            /\ \A k \in 1..(5 * n) : out[k] \notin {"[[MATCHA_IMG_ROWS:", "]]"}

\* C11 witness: a payload of exactly three chunks: m=1, m=1, m=0.
C11_Witness ==
    /\ enc.fn = "kittyInlineImage"
    /\ PayLen(payload) = 3 * chunkSize
    /\ ChunksIn(enc.out) = 3
    /\ enc.out[2] = "1" /\ enc.out[7] = "1" /\ enc.out[12] = "0"
    /\ enc.out[17] = imageRowPlaceholderPrefix

\* the cell height the claim describes: the first positive pixel height per
\* row among the four descriptors, 18 when there is none
CellOf(ws) ==
    IF ~ws.err /\ ws.Row > 0 /\ ws.Ypixel > 0 THEN ws.Ypixel \div ws.Row ELSE 0
FirstCell(tty) ==
    IF CellOf(tty[1]) > 0 THEN CellOf(tty[1])
    ELSE IF CellOf(tty[2]) > 0 THEN CellOf(tty[2])
    ELSE IF CellOf(tty[3]) > 0 THEN CellOf(tty[3])
    ELSE IF CellOf(tty[4]) > 0 THEN CellOf(tty[4])
    ELSE 18

\* the row count the claim describes
RowsExpected(p, tty) ==
    IF PayInfo(p).img
    THEN LET r == CeilDiv(PayInfo(p).h, FirstCell(tty))
         IN  IF r < 1 THEN 1 ELSE r
    ELSE 1

\* C12: for both encoders the number N in the row placeholder is
\* ceil(pixelHeight / cellHeight), at least 1, when the payload decodes as
\* an image, and 1 when it does not; N >= 1 always.
C12_PlaceholderRows ==
    (enc.fn \in {"kittyInlineImage", "iterm2InlineImage"} /\ payload # "") =>
        LET out == enc.out
            k == Len(out) - 2
        IN  /\ out[k - 1] = "[[MATCHA_IMG_ROWS:"
            /\ out[k + 1] = "]]"
            /\ out[k] = ToString(RowsExpected(payload, enc.tty))
            /\ NumOf(out[k]) >= 1

\* C12 witness: the iTerm2 encoder, stdout without pixel size, stdin with
\* 9-pixel cells: an image 37 pixels high takes 5 rows.
C12_Witness ==
    /\ enc.fn = "iterm2InlineImage" /\ payload # ""
    /\ PayInfo(payload).img /\ PayInfo(payload).h = 37
    /\ enc.tty[1] = WsNoPixels /\ enc.tty[2] = Ws9
    /\ enc.out[Len(enc.out) - 2] = "5"

-----------------------------------------------------------------------------
(* Properties of the text rewrites.                                        *)

DigitRun(tok) == tok = HugeNum \/ \E n \in 0..MaxNum : ToString(n) = tok

\* the positions where a row placeholder with a run of digits starts
RowPlaceholdersAt(t) ==
    {i \in 1..(Len(t) - 2) :
        /\ t[i] = "[[MATCHA_IMG_ROWS:"
        /\ DigitRun(t[i + 1])
        /\ t[i + 2] = "]]"}

\* the positions where the two markers enclose one token, digits or not
MarkerPairsAt(t) ==
    {i \in 1..(Len(t) - 2) : t[i] = "[[MATCHA_IMG_ROWS:" /\ t[i + 2] = "]]"}

\* the count a placeholder stands for: N, and 1 when N < 1 or unreadable
RowsMeant(tok) ==
    IF \E n \in 1..MaxNum : ToString(n) = tok
    THEN CHOOSE n \in 1..MaxNum : ToString(n) = tok
    ELSE 1

\* t with the three tokens at each position of at replaced by newlines
Expanded(t, at) ==
    Cat([i \in 1..Len(t) |->
            IF i \in at THEN [k \in 1..RowsMeant(t[i + 1]) |-> "\n"]
            ELSE IF (i - 1) \in at \/ (i - 2) \in at THEN <<>>
            ELSE <<t[i]>>])

\* C13 (amended): the expansion replaces every [[MATCHA_IMG_ROWS:N]] whose N
\* is a run of decimal digits by N newlines, by one newline when N is 0 or
\* too long to read, and leaves every other token as it is; markers that
\* enclose anything but digits stay in the text.
C13_DigitPlaceholdersExpanded ==
    pc = "expanded" =>
        /\ result = Expanded(text, RowPlaceholdersAt(text))
        /\ RowPlaceholdersAt(result) = {}

\* C13 witness: a placeholder with count 2 before a word became two
\* newlines before that word.
C13_Witness ==
    /\ pc = "expanded"
    /\ text = <<"[[MATCHA_IMG_ROWS:", "2", "]]", "w">>
    /\ result = <<"\n", "\n", "w">>

\* C13 (as stated, refuted): every placeholder, a malformed count included,
\* is replaced by newlines and no placeholder text remains.
C13_AllPlaceholdersExpanded ==
    pc = "expanded" =>
        /\ result = Expanded(text, MarkerPairsAt(text))
        /\ \A i \in 1..Len(result) : result[i] # "[[MATCHA_IMG_ROWS:"

\* the longest run of newlines of a text
LongestRun(t) ==
    LET runs == {n \in 0..Len(t) :
                    \E i \in 1..(Len(t) - n + 1) :
                        \A k \in i..(i + n - 1) : t[k] = "\n"}
    IN  CHOOSE n \in runs : \A m \in runs : m <= n

\* t without every newline that has two newlines right before it
RunsCut(t) ==
    Cat([i \in 1..Len(t) |->
            IF i > 2 /\ t[i] = "\n" /\ t[i - 1] = "\n" /\ t[i - 2] = "\n"
            THEN <<>> ELSE <<t[i]>>])

\* C14: the collapse leaves no run of three or more newlines; it cuts every
\* such run to two newlines and changes nothing else, row placeholders
\* included; applied to its own result it changes nothing.
C14_CollapseRuns ==
    /\ pc = "collapsed" =>
          /\ LongestRun(result) <= 2
          /\ result = RunsCut(text)
          /\ Count(result, <<"[[MATCHA_IMG_ROWS:">>) = Count(text, <<"[[MATCHA_IMG_ROWS:">>)
    /\ pc = "collapsed twice" => result = text

\* C14 witness: two long runs in one text, each cut to two newlines.
C14_Witness ==
    /\ pc = "collapsed twice"
    /\ result = <<"w", "\n", "\n", "w", "\n", "\n">>

\* the positions where a quote placeholder with a run of digits starts
QuotePlaceholdersAt(t) ==
    {i \in 1..(Len(t) - 2) :
        /\ t[i] = "[[MATCHA_QUOTE:"
        /\ DigitRun(t[i + 1])
        /\ t[i + 2] = "]]"}

\* the index a placeholder names is one of the records
InRange(tok, quotes) ==
    \E n \in 0..(Len(quotes) - 1) : ToString(n) = tok
RecordNamed(tok, quotes) ==
    quotes[1 + CHOOSE n \in 0..(Len(quotes) - 1) : ToString(n) = tok]

\* t with every placeholder in range replaced by the box of its record and
\* every other token kept
QuotesResolved(t, quotes) ==
    LET at == {i \in QuotePlaceholdersAt(t) : InRange(t[i + 1], quotes)}
    IN  Cat([i \in 1..Len(t) |->
                IF i \in at
                THEN LET q == RecordNamed(t[i + 1], quotes)
                     IN  renderQuoteBox(q.from, q.date, Split(q.content))
                ELSE IF (i - 1) \in at \/ (i - 2) \in at THEN <<>>
                ELSE <<t[i]>>])

\* C15 (as stated, refuted): a quote placeholder whose index names a record
\* is replaced by that record's box, and one whose index is out of range is
\* left as literal text.
C15_OutOfRangeLeftLiteral ==
    pc = "resolved" => result = QuotesResolved(text, quoteData)

\* C15, the part that holds: the same for every placeholder whose index is
\* a number that fits an integer.
C15_ReadableIndexResolved ==
    (pc = "resolved" /\ \A i \in 1..Len(text) : text[i] # HugeNum) =>
        result = QuotesResolved(text, quoteData)

\* the quote placeholders left in a text, as indices
PlaceholderIndices(t) == {NumOf(t[i + 1]) : i \in QuotePlaceholdersAt(t)}

\* C15, the part that holds in the render call: one record for each
\* blockquote the extraction meets, and every placeholder of the document
\* and of the extracted text names one of the records.
C15_PlaceholdersValid ==
    /\ pc \in {"a", "img", "img.each"} =>
          \A n \in PlaceholderIndices(ForestText(doc)) :
              n >= 0 /\ n < Len(quoteData)
    /\ pc \in {"collapse", "expand", "quotes"} =>
          \A n \in PlaceholderIndices(text) : n >= 0 /\ n < Len(quoteData)
    /\ pc \in {"a", "img", "img.each", "collapse", "expand", "quotes",
               "plainquotes", "style"} =>
          Len(quoteData)
            = Cardinality({n \in SeqToSet(Flatten(ParseHTML(markdownToHTML(
                                 decodeQuotedPrintable(rawBody).body, TRUE)))) :
                             n.tag = "blockquote"})
    /\ pc \in {"plainquotes", "style", "done"} =>
          QuotePlaceholdersAt(text) = {}

\* a line of the form On <date>, <sender> wrote:
IsHeader(l) ==
    /\ Len(l) >= 5
    /\ l[1] = "On " /\ l[Len(l)] = " wrote:"
    /\ \E k \in 3..(Len(l) - 2) : l[k] = ", "
\* the sender is what stands between the last ", " and " wrote:", the date
\* what stands between "On " and that ", "
LastComma(l) ==
    CHOOSE k \in 3..(Len(l) - 2) :
        l[k] = ", " /\ \A j \in (k + 1)..(Len(l) - 2) : l[j] # ", "
SenderOf(l) == SubSeq(l, LastComma(l) + 1, Len(l) - 1)
DateOf(l) == SubSeq(l, 2, LastComma(l) - 1)

\* a date as the quote box is to show it
DisplayDate(d) ==
    IF d \in {<<"Jan 2", ", ", "2006 at 3:04 PM">>, <<"2006-01-02 15:04:05">>}
    THEN <<"02:01:06 15:04">>
    ELSE d

\* the headers of a sibling list that are followed by quoted lines: a text
\* whose next line starts with ">", or a paragraph before a blockquote
HeadersIn(f) ==
    {[from |-> SenderOf(l), date |-> DateOf(l), first |-> q] :
        <<l, q>> \in
            UNION {LET ls == Split(f[i].toks)
                   IN  {<<ls[k], TrimLeft(Tail(ls[k + 1]), {" "})>> :
                           k \in {k \in 1..(Len(ls) - 1) :
                                     /\ IsHeader(ls[k])
                                     /\ ls[k + 1] # <<>>
                                     /\ ls[k + 1][1] = ">"}} :
                   i \in {i \in 1..Len(f) : f[i].tag = "#text"}}
            \cup {<<NodeText(f[i]), Split(TrimSpace(NodeText(f[i + 1])))[1]>> :
                     i \in {i \in 1..(Len(f) - 1) :
                               /\ f[i].tag \in {"p", "md:p"}
                               /\ IsHeader(NodeText(f[i]))
                               /\ f[i + 1].tag = "blockquote"}}}

RECURSIVE QuotedHeaders(_)
QuotedHeaders(f) ==
    HeadersIn(f) \cup UNION {QuotedHeaders(f[i].kids) : i \in 1..Len(f)}

\* the output has a box whose header line shows the sender and the date for
\* display and below which the first quoted line stands without its marker
BoxShown(c) ==
    LET L == Split(result)
    IN  \E k \in 1..Len(L) :
            /\ Contains(L[k], <<BoxLeft>>)
            /\ Contains(L[k], c.from \o <<"  ">>)
            /\ Contains(L[k], DisplayDate(c.date))
            /\ \E j \in (k + 1)..Len(L) : L[j] = <<BoxLeft>> \o c.first \o <<BoxRight>>

\* C16 (as stated, refuted): for a header line followed by quoted lines the
\* output has a quote box whose header shows the sender and the date
\* reformatted for display, and whose body has the quoted lines without
\* their markers.
C16_QuoteBoxHeader ==
    Rendered => \A c \in QuotedHeaders(rawBody) : BoxShown(c)

\* C16, the part that holds: the same when the date holds no ", ".
C16_QuoteBoxHeaderPlainDate ==
    Rendered =>
        \A c \in QuotedHeaders(rawBody) :
            (\A k \in 1..Len(c.date) : c.date[k] # ", ") => BoxShown(c)

-----------------------------------------------------------------------------
(* Properties of the inline-image lookup.                                  *)

\* the id a cid: reference names
RefId(src) == IF src[2] = "<" THEN src[3] ELSE src[2]

\* the entries that supply a payload for the id x, in whichever wrapping
SuppliersOf(x, wrappings) ==
    {i \in 1..Len(inlineList) :
        inlineList[i].Base64 # "" /\ inlineList[i].CID \in wrappings}

\* C17 (as stated, refuted): when exactly one entry supplies the id X, in
\* any wrapping of whitespace, <...> and cid:, a reference to cid:X or
\* cid:<X> finds that entry's payload.
C17_AnyWrappingFound ==
    pc = "looked up" =>
        LET sup == SuppliersOf(RefId(text), WrappingsOf(RefId(text)) \cup {<<RefId(text)>>})
        IN  \A i \in sup : sup = {i} => payload = inlineList[i].Base64

\* C17, the part that holds: the same for every wrapping but cid: written
\* outside the brackets; and no key is empty, no payload of the map empty.
C17_BracketedWrappingFound ==
    /\ pc = "looked up" =>
          LET x == RefId(text)
              sup == SuppliersOf(x, (WrappingsOf(x) \cup {<<x>>}))
              good == SuppliersOf(x, (WrappingsOf(x) \cup {<<x>>})
                                        \ {<<"cid:", "<", x, ">">>})
          IN  \A i \in good : sup = {i} => payload = inlineList[i].Base64
    /\ pc # "cid" =>
          /\ <<>> \notin DOMAIN inline
          /\ \A k \in DOMAIN inline : inline[k] # ""

-----------------------------------------------------------------------------
(* Properties of two interleaved render calls.                             *)

\* what the outside world answered to a call: the outcome of the Markdown
\* conversion and of the parse, of each fetch, and the cell height read
\* for each image shown
Answers(c) ==
    <<c.stages, [i \in DOMAIN c.imgLog |-> <<c.imgLog[i].outcome, c.imgLog[i].cell>>]>>

-----------------------------------------------------------------------------
(* Properties of the compose screen.                                       *)

\* the focus cycle as the claim gives it
Cycle(m) ==
    IF m.accounts > 1
    THEN <<focusFrom, focusTo, focusSubject, focusBody, focusSignature,
           focusAttachment, focusSend>>
    ELSE <<focusTo, focusSubject, focusBody, focusSignature, focusAttachment,
           focusSend>>

PosIn(c, f) == CHOOSE i \in 1..Len(c) : c[i] = f
After(c, f) == c[(PosIn(c, f) % Len(c)) + 1]
Before(c, f) == c[((PosIn(c, f) + Len(c) - 2) % Len(c)) + 1]

\* no suggestion list, account picker or exit prompt takes the key
KeyReachesFocus(m, key) ==
    /\ ~m.showAccountPicker
    /\ ~m.confirmingExit
    /\ ~(key = "tab" /\ m.showSuggestions /\ m.suggestions > 0)

Untouched(m) ==
    <<m.focusIndex, m.to, m.subject, m.body, m.signature, m.confirmingExit>>

\* C20: a message opens the account picker only if it is Enter with focus
\* on From and more than one account; while the picker is open every key
\* leaves focus, inputs and exit confirmation as they are and returns no
\* command, selectedAccountIdx is within 0 .. accounts - 1, and Enter and
\* Esc close the picker.
C20_AccountPicker ==
    pc = "composer" =>
        /\ \A msg \in Keys \cup OtherMsgs, found \in 0..MaxContacts :
              (~composer.showAccountPicker
                  /\ Update(composer, msg, found).m.showAccountPicker) =>
                      /\ msg = "enter"
                      /\ composer.focusIndex = focusFrom
                      /\ composer.accounts > 1
        /\ composer.showAccountPicker =>
              /\ composer.selectedAccountIdx \in 0..(composer.accounts - 1)
              /\ \A key \in Keys, found \in 0..MaxContacts :
                    /\ Untouched(Update(composer, key, found).m) = Untouched(composer)
                    /\ Update(composer, key, found).cmd = "nil"
                    /\ Update(composer, key, found).m.selectedAccountIdx
                          \in 0..(composer.accounts - 1)
              /\ ~Update(composer, "enter", 0).m.showAccountPicker
              /\ ~Update(composer, "esc", 0).m.showAccountPicker

\* the picker is open on the last account after Down has moved the selection
C20_Witness ==
    /\ pc = "composer"
    /\ composer.showAccountPicker
    /\ composer.focusIndex = focusFrom
    /\ composer.selectedAccountIdx = composer.accounts - 1
    /\ composer.selectedAccountIdx > 0
    /\ composer.to = <<"y">>

-----------------------------------------------------------------------------
(* The mailbox screens.                                                    *)

\* the label the account's tab is to show
TabLabel(acc) == IF acc.FetchEmail = "" THEN acc.Email ELSE acc.FetchEmail

\* C21: an Inbox has exactly one tab when zero or one account is configured,
\* and 1 + N tabs with the ALL tab (empty ID) first when N > 1 accounts are
\* configured, each account tab labelled with the account's FetchEmail, or
\* with its Email when FetchEmail is empty; after construction and after
\* every SetEmails.
C21_TabsFollowAccounts ==
    pc = "inbox" =>
        LET m == inbox["inbox"]
            n == Len(m.accounts)
        IN  IF n <= 1 THEN Len(m.tabs) = 1
            ELSE /\ Len(m.tabs) = 1 + n
                 /\ m.tabs[1].ID = ""
                 /\ \A i \in 1..n :
                       /\ m.tabs[i + 1].ID = m.accounts[i].ID
                       /\ m.tabs[i + 1].Label = TabLabel(m.accounts[i])

\* the emails of l other than those of the account with the UID
Keep(l, uid, accountID) ==
    SelectSeq(l, LAMBDA e : ~(e.UID = uid /\ e.AccountID = accountID))

CountIn(l, e) == Cardinality({i \in 1..Len(l) : l[i] = e})

\* the per-account lists of m, one after the other
PerAccount(m) ==
    FlattenIn(m.emailsByAccount, CHOOSE o \in Orders(DOMAIN m.emailsByAccount) : TRUE)

SameMultiset(l1, l2) ==
    \A e \in SeqToSet(l1) \cup SeqToSet(l2) : CountIn(l1, e) = CountIn(l2, e)

\* C22: RemoveEmail(uid, accountID) removes exactly the emails with that UID
\* and account from the all-emails list and from the account's list and
\* leaves every other email, those with the same UID of other accounts
\* included, in unchanged relative order; in TrashArchive the inbox of the
\* other mailbox is left as it was; and after any sequence of RemoveEmail,
\* SetEmails, EmailsAppendedMsg and EmailsRefreshedMsg the all-emails list
\* equals, as a multiset, the union of the per-account lists.
C22_RemoveEmailFrame ==
    pc = "trasharchive" =>
        /\ \A k \in DOMAIN inbox : SameMultiset(inbox[k].allEmails, PerAccount(inbox[k]))
        /\ \A k \in DOMAIN inbox, uid \in 1..2, acc \in AccountIDs :
              LET m == inbox[k]
                  m2 == RemoveEmail(m, uid, acc)
              IN  /\ m2.allEmails = Keep(m.allEmails, uid, acc)
                  /\ \A id \in AccountIDs :
                        MapGet(m2.emailsByAccount, id) =
                            Keep(MapGet(m.emailsByAccount, id), uid, acc)
        /\ \A mb \in {"trash", "archive"}, uid \in 1..2, acc \in AccountIDs :
              LET b2 == TrashArchiveRemoveEmail(inbox, uid, acc, mb)
              IN  /\ b2[mb].allEmails = Keep(inbox[mb].allEmails, uid, acc)
                  /\ \A k \in DOMAIN inbox \ {mb} : b2[k] = inbox[k]

\* the trash holds one UID for two accounts, the archive the same email, and
\* removing it from the trash for one account takes that one email only
C22_Witness ==
    /\ pc = "trasharchive"
    /\ inbox["trash"].allEmails = <<Email(1, "a", 2), Email(1, "b", 1)>>
    /\ inbox["archive"].allEmails = <<Email(1, "a", 2)>>
    /\ LET b2 == TrashArchiveRemoveEmail(inbox, 1, "a", "trash")
       IN  /\ b2["trash"].allEmails = <<Email(1, "b", 1)>>
           /\ b2["trash"].emailsByAccount["a"] = <<>>
           /\ b2["archive"].allEmails = <<Email(1, "a", 2)>>

\* every message the model sends an Inbox
InboxMsgs ==
    {KeyMsgOf(k) : k \in InboxKeys} \cup PlainMsgs \cup RefreshedMsgs
        \cup {x \in AppendedMsgs : x.Emails \in EmailsOf(x.AccountID)}

\* the selection is on the last item of a list that is not empty and not
\* being filtered, and no fetch is in flight
AtListEnd(m) ==
    /\ m.list.items # <<>>
    /\ m.list.index = Len(m.list.items) - 1
    /\ m.list.filterState # "filtering"
    /\ ~m.isFetching

FetchMoreOf(cmds) == SelectSeq(cmds, LAMBDA c : c.type = "FetchMoreEmailsMsg")

\* the messages the claim asks for: one for the account shown, or in the ALL
\* view one per configured account, each with the count held for the account
FetchMoreWanted(m) ==
    IF m.currentAccountID = ""
    THEN [i \in 1..Len(m.accounts) |->
             FetchMoreEmailsMsg(Len(MapGet(m.emailsByAccount, m.accounts[i].ID)),
                                m.accounts[i].ID, m.mailbox)]
    ELSE <<FetchMoreEmailsMsg(Len(MapGet(m.emailsByAccount, m.currentAccountID)),
                              m.currentAccountID, m.mailbox)>>

\* Update hands msg to the list: it is none of the keys and messages that
\* Update answers itself and returns from
HandedToList(m, msg) ==
    IF msg.type = "KeyMsg"
    THEN \/ m.list.filterState = "filtering"
         \/ /\ ~(msg.key \in {"left", "right"} /\ Len(m.tabs) > 1)
            /\ ~(msg.key \in {"d", "a", "enter"} /\ m.list.items # <<>>)
            /\ msg.key # "r"
    ELSE msg.type \notin {"WindowSizeMsg", "FetchingMoreEmailsMsg", "EmailsAppendedMsg",
                          "RefreshingEmailsMsg", "EmailsRefreshedMsg"}

\* C23 as stated: whenever an event leaves the selection on the last item of
\* a non-empty list that is not being filtered and isFetching is false,
\* Update emits the FetchMoreEmailsMsg of the view; none while isFetching.
C23_FetchMoreOnEveryEvent ==
    pc = "inbox" =>
        \A msg \in InboxMsgs :
            LET r == InboxUpdate(inbox["inbox"], msg)
            IN  /\ AtListEnd(r.m) => FetchMoreOf(r.cmds) = FetchMoreWanted(r.m)
                /\ r.m.isFetching => FetchMoreOf(r.cmds) = <<>>

\* C23: whenever an event that Update hands to the list leaves the selection
\* on the last item of a non-empty list that is not being filtered and
\* isFetching is false, Update emits a FetchMoreEmailsMsg for the inbox's
\* mailbox with Offset the number of emails held for the account, in the ALL
\* view one per configured account; no FetchMoreEmailsMsg is emitted while
\* isFetching is true.
C23_FetchMoreAtListEnd ==
    pc = "inbox" =>
        \A msg \in InboxMsgs :
            LET r == InboxUpdate(inbox["inbox"], msg)
            IN  /\ HandedToList(inbox["inbox"], msg) /\ AtListEnd(r.m) =>
                      FetchMoreOf(r.cmds) = FetchMoreWanted(r.m)
                /\ r.m.isFetching => FetchMoreOf(r.cmds) = <<>>

\* Down moves the selection of the ALL view of two accounts to the last of
\* two emails and two messages are emitted, one per account
C23_Witness ==
    /\ pc = "inbox"
    /\ Len(inbox["inbox"].accounts) = 2
    /\ inbox["inbox"].list.index = 0
    /\ ~inbox["inbox"].isFetching
    /\ inbox["inbox"].allEmails = <<Email(1, "a", 2), Email(2, "a", 1)>>
    /\ LET r == InboxUpdate(inbox["inbox"], KeyMsgOf("down"))
       IN  /\ r.m.list.index = 1
           /\ r.cmds = <<FetchMoreEmailsMsg(2, "a", "inbox"),
                         FetchMoreEmailsMsg(0, "b", "inbox")>>

\* C24: in EmailView, Tab moves focus to the attachment list only when the
\* email has at least one attachment, and Tab or Esc from the attachment list
\* returns focus to the body; while attachments are focused the cursor stays
\* within 0 .. number of attachments - 1 under Up and Down, and Enter emits a
\* DownloadAttachmentMsg for exactly the attachment at the cursor with the
\* view's mailbox.
C24_AttachmentFocus ==
    pc = "emailview" =>
        LET m == emailView
            n == Len(m.email.Attachments)
        IN  /\ m.focusOnAttachments => m.attachmentCursor \in 0..(n - 1)
            /\ m.attachmentCursor \in 0..(n - 1) \/ m.attachmentCursor = 0
            /\ \A msg \in EmailViewMsgs :
                  LET r == EmailViewUpdate(m, msg)
                  IN  /\ ~m.focusOnAttachments =>
                            (r.m.focusOnAttachments <=>
                                msg = KeyMsgOf("tab") /\ n > 0)
                      /\ m.focusOnAttachments =>
                            (r.m.focusOnAttachments <=>
                                msg \notin {KeyMsgOf("tab"), KeyMsgOf("esc")})
                      /\ m.focusOnAttachments /\ msg = KeyMsgOf("enter") =>
                            /\ r.m = m
                            /\ r.cmds =
                                 <<[type |-> "DownloadAttachmentMsg",
                                    Index |-> m.emailIndex,
                                    Filename |-> m.email.Attachments[m.attachmentCursor + 1].Filename,
                                    PartID |-> m.email.Attachments[m.attachmentCursor + 1].PartID,
                                    Data |-> m.email.Attachments[m.attachmentCursor + 1].Data,
                                    AccountID |-> m.accountID,
                                    Mailbox |-> m.mailbox]>>

\* the second of two attachments is under the cursor and Enter asks for it
C24_Witness ==
    /\ pc = "emailview"
    /\ emailView.focusOnAttachments
    /\ emailView.attachmentCursor = 1
    /\ emailView.email.Attachments = <<Attachment("a.pdf", "2"), Attachment("b.png", "3")>>
    /\ EmailViewUpdate(emailView, KeyMsgOf("enter")).cmds[1].Filename = "b.png"
    /\ ~EmailViewUpdate(emailView, KeyMsgOf("tab")).m.focusOnAttachments

-----------------------------------------------------------------------------
(* The order of the rewrites.                                              *)

\* the rewrites of processBody in the order of the function body
RewriteOrder ==
    <<"strip", "h1", "h2", "spacing", "br", "blockquote", "a", "img", "text",
      "collapse", "expand", "quotes", "plainquotes", "style">>

\* the stages run after the body was parsed
AfterParse ==
    LET k == CHOOSE i \in 1..Len(stages) : stages[i] = "parse"
    IN  SubSeq(stages, k + 1, Len(stages))

\* C25: processBody applies its rewrites in one fixed order: remove
\* style/script, style h1 then h2, paragraph spacing, br to newline,
\* blockquote extraction, anchors, images; the text is extracted only after
\* all of them, and then collapse, image-row expansion, quote-placeholder
\* resolution, the plain-text quote pass and body styling run in that order.
C25_FixedOrder ==
    IF "parse" \in SeqToSet(stages)
    THEN /\ HasPrefix(RewriteOrder, AfterParse)
         /\ pc = "done" => AfterParse = RewriteOrder
    ELSE SeqToSet(stages) \cap SeqToSet(RewriteOrder) = {}

\* a returned call that rewrote an image: every stage ran, once
C25_Witness ==
    /\ pc = "done"
    /\ err = ""
    /\ imgLog # <<>>
    /\ AfterParse = RewriteOrder

-----------------------------------------------------------------------------
(* Properties of the blockquote extraction.                                *)

\* the tokens of a reply header, and the white space around it
HeaderTokens == SeqToSet(HeaderLine) \cup SeqToSet(HeaderComma) \cup {" ", "\n"}

\* C26: when a blockquote's preceding sibling matches On <date>, <sender>
\* wrote:, the extraction captures sender and date and removes the matched
\* header text and nothing else: any other text of the preceding sibling and
\* all other content of the document still appear in the output.
C26_OnlyHeaderRemoved ==
    Rendered /\ (\E i \in 1..Len(quoteData) : quoteData[i].from # <<>>) =>
        \A t \in SeqToSet(ForestText(rawBody)) \ HeaderTokens :
            t \in SeqToSet(result)

-----------------------------------------------------------------------------
(* Properties of the plain-text quote pass.                                *)

IsQuoted(line) == HasPrefix(TrimSpace(line), <<">">>)
IsBlank(line) == TrimSpace(line) = <<>>
IsReplyHeader(line) == OnWroteMatch(TrimSpace(line), TRUE).ok

\* a quoted line without its marker and the one space after it
Unquoted(line) == TrimPrefix(TrimPrefix(TrimSpace(line), <<">">>), <<" ">>)

\* a block with quoted lines in it is open and a line is left to read
BlockOpen == pc = "scan" /\ scan.st.inQuote /\ scan.st.quoteBlock # <<>>

PendingBox ==
    renderQuoteBox(scan.st.quoteFrom, scan.st.quoteDate, scan.st.quoteBlock)

NextQuoted(i) == i + 1 <= Len(scan.lines) /\ IsQuoted(scan.lines[i + 1])

\* what the next iteration does to an open block: Closes is the set of lines
\* that end it and are emitted after its box
StepOnOpenBlock(Closes(_, _)) ==
    BlockOpen /\ scan.i < Len(scan.lines) =>
        LET i == scan.i + 1
            line == scan.lines[i]
            st == scan.st
            st1 == QuoteScanStep(st, scan.lines, i)
        IN  IF Closes(line, i)
            THEN /\ st1.result = st.result \o <<PendingBox, line>>
                 /\ ~st1.inQuote /\ st1.quoteBlock = <<>>
            ELSE IF IsReplyHeader(line)
            THEN /\ st1.result = Append(st.result, PendingBox)
                 /\ st1.inQuote /\ st1.quoteBlock = <<>>
            ELSE /\ st1.result = st.result
                 /\ st1.inQuote
                 /\ st1.quoteBlock =
                        Append(st.quoteBlock,
                               IF IsQuoted(line) THEN Unquoted(line) ELSE <<>>)

\* end of input: the box of the open block is the last thing emitted
EndOnOpenBlock ==
    pc = "scanned" /\ scan.st.inQuote /\ scan.st.quoteBlock # <<>> =>
        /\ scan.st.result[Len(scan.st.result)] = PendingBox
        /\ scan.out = Join(scan.st.result)
        /\ scan.out = styleQuotedReplies(Join(scan.lines))

\* C27 as stated: an open quote block is closed by the first following line
\* that is non-blank and not '>'-prefixed, by a blank line whose next line is
\* not '>'-prefixed, or by end of input; its box is emitted before the closing
\* line and the closing line is then emitted as normal text.
C27_ClosingLineEmitted ==
    /\ StepOnOpenBlock(LAMBDA line, i :
           \/ ~IsBlank(line) /\ ~IsQuoted(line)
           \/ IsBlank(line) /\ ~NextQuoted(i))
    /\ EndOnOpenBlock

\* C27: the same, for a closing line that is no reply header; a reply header
\* closes the block as well, its box is emitted, and the header is not
\* emitted as a line: it is kept as the header of the block to come.
C27_ClosingLineEmittedUnlessHeader ==
    /\ StepOnOpenBlock(LAMBDA line, i :
           \/ ~IsBlank(line) /\ ~IsQuoted(line) /\ ~IsReplyHeader(line)
           \/ IsBlank(line) /\ ~NextQuoted(i))
    /\ EndOnOpenBlock

\* a block of one quoted line is open, the next line is a word, and the
\* step emits the box and then the word
C27_Witness ==
    /\ BlockOpen
    /\ scan.i < Len(scan.lines)
    /\ scan.lines[scan.i + 1] = <<"w1">>
    /\ scan.st.quoteBlock = <<<<"q1">>>>
    /\ LET st1 == QuoteScanStep(scan.st, scan.lines, scan.i + 1)
       IN  st1.result = scan.st.result \o <<PendingBox, <<"w1">>>>

\* the indices of the quoted lines of the text, in order
QuotedAt == SelectSeq([i \in 1..Len(scan.lines) |-> i],
                      LAMBDA i : IsQuoted(scan.lines[i]))

\* the lines given to a box, without the blank ones in front of the first
\* quoted line
FromFirstQuoted(l) ==
    IF \A k \in 1..Len(l) : l[k] = <<>> THEN <<>>
    ELSE SubSeq(l, CHOOSE k \in 1..Len(l) :
                       l[k] # <<>> /\ \A j \in 1..(k - 1) : l[j] = <<>>,
                Len(l))

\* C28: every '>'-prefixed input line appears in exactly one quote box, with
\* its leading '>' and at most one following space removed, in input order;
\* '>'-lines separated only by a blank line that is immediately followed by
\* a '>'-line are in the same box, with the blank line kept inside it; no
\* quoted line is dropped, duplicated or emitted outside a box.
C28_QuotedLinesBoxedOnce ==
    pc = "scanned" =>
        LET B == scan.boxes
            kept == SelectSeq(scan.st.result, LAMBDA e : ~IsBox(e))
        IN  /\ \A k \in 1..Len(B) :
                  /\ B[k].first > 0 /\ B[k].first < B[k].at
                  /\ B[k].text = renderQuoteBox(B[k].from, B[k].date, B[k].lines)
                  /\ FromFirstQuoted(B[k].lines) =
                        [j \in 1..(B[k].at - B[k].first) |->
                            LET line == scan.lines[B[k].first + j - 1]
                            IN  IF IsQuoted(line) THEN Unquoted(line) ELSE <<>>]
                  /\ k < Len(B) => B[k].at <= B[k + 1].first
            /\ \A n \in 1..Len(QuotedAt) :
                  Cardinality({k \in 1..Len(B) :
                                  B[k].first <= QuotedAt[n] /\ QuotedAt[n] < B[k].at}) = 1
            /\ SelectSeq(scan.st.result, IsBox) = [k \in 1..Len(B) |-> B[k].text]
            /\ \A k \in 1..Len(kept) : ~IsQuoted(kept[k])
            /\ \A i \in 1..(Len(scan.lines) - 2) :
                  IsQuoted(scan.lines[i]) /\ IsBlank(scan.lines[i + 1])
                      /\ IsQuoted(scan.lines[i + 2]) =>
                          \E k \in 1..Len(B) : B[k].first <= i /\ i + 2 < B[k].at
            /\ scan.out = Join(scan.st.result)

\* two quoted lines with a blank line between them end in one box of three
\* lines
C28_Witness ==
    /\ pc = "scanned"
    /\ scan.lines = <<<<">", " ", "q1">>, <<>>, <<">", "q2">>, <<"w1">>>>
    /\ Len(scan.boxes) = 1
    /\ scan.boxes[1].lines = <<<<"q1">>, <<>>, <<"q2">>>>
    /\ scan.st.result = <<scan.boxes[1].text, <<"w1">>>>

\* the header line h opened the block whose first quoted line is at first:
\* only blank lines lie between the two
Opened(h, first) ==
    /\ h \in 1..(first - 1)
    /\ IsReplyHeader(scan.lines[h])
    /\ \A k \in (h + 1)..(first - 1) : IsBlank(scan.lines[k])

HeaderFrom(h) == OnWroteMatch(TrimSpace(scan.lines[h]), TRUE).from
HeaderDate(h) ==
    parseDateForDisplay(OnWroteMatch(TrimSpace(scan.lines[h]), TRUE).date)

\* the box shows this sender and this date in its header line
Shows(b, from, date) ==
    /\ b.from = from /\ b.date = date
    /\ b.text = renderQuoteBox(from, date, b.lines)

\* C29: a quote box of the plain-text pass shows the sender and date of an
\* On DATE, X wrote: header only if that header opened the block, with only
\* blank lines between the header and the block's first '>' line; a block
\* opened by a '>' line without such a header shows no sender or date, and
\* header information never carries over from one block to a later one.
C29_HeaderOnlyFromOpener ==
    \A k \in 1..Len(scan.boxes) :
        LET b == scan.boxes[k]
        IN  IF \E h \in 1..Len(scan.lines) : Opened(h, b.first)
            THEN \E h \in 1..Len(scan.lines) :
                    Opened(h, b.first) /\ Shows(b, HeaderFrom(h), HeaderDate(h))
            ELSE Shows(b, <<>>, <<>>)

\* a block with a header, a word, and a block without one: the first box
\* names the sender, the second does not
C29_Witness ==
    /\ pc = "scanned"
    /\ scan.lines = <<HeaderLine, <<">", " ", "q1">>, <<"w1">>, <<">", "q2">>>>
    /\ Len(scan.boxes) = 2
    /\ scan.boxes[1].from = <<"s1">>
    /\ scan.boxes[2].from = <<>> /\ scan.boxes[2].date = <<>>

\* C30: at every step of the line scan, whenever the scanner is in state
\* normal (inQuote false) the pending quote block is empty and the pending
\* sender and date are empty.
C30_NormalStateHoldsNothing ==
    pc \in {"scan", "scanned"} /\ ~scan.st.inQuote =>
        /\ scan.st.quoteBlock = <<>>
        /\ scan.st.quoteFrom = <<>>
        /\ scan.st.quoteDate = <<>>

\* the scanner is back in state normal after a block with a header
C30_Witness ==
    /\ pc = "scan"
    /\ scan.i = 3
    /\ ~scan.st.inQuote
    /\ Len(scan.boxes) = 1
    /\ scan.boxes[1].from = <<"s1">>
    /\ scan.st.quoteFrom = <<>>

-----------------------------------------------------------------------------
(* Image protocol support and the renderer's answer.                       *)

\* the seven terminal identities of the detection functions
Identities ==
    [kitty |-> kittySupported, ghostty |-> ghosttySupported,
     iterm2 |-> iterm2Supported, wezterm |-> weztermSupported,
     wayst |-> waystSupported, warp |-> warpSupported,
     konsole |-> konsoleSupported]

\* C31: imageProtocolSupported() is true exactly when at least one of the
\* seven terminal identities is detected, and in every such environment
\* renderInlineImage returns a non-empty escape sequence for every non-empty
\* payload, decodable as an image or not: the branch of processBody taken
\* when a payload is present and the renderer returns empty is never taken.
C31_RendererNeverEmpty ==
    /\ imageProtocolSupported <=> (\E t \in DOMAIN Identities : Identities[t])
    /\ (pc = "dispatched" /\ imageProtocolSupported /\ payload # "") =>
          /\ enc.out # <<>>
          /\ ProtocolOf(enc.out) \in {"kitty", "iterm2"}

\* C31 witness: Konsole alone is detected, the payload does not decode as an
\* image, and the renderer answers with a Kitty sequence.
C31_Witness ==
    /\ pc = "dispatched" /\ payload = NotImage
    /\ konsoleSupported
    /\ \A t \in DOMAIN Identities \ {"konsole"} : ~Identities[t]
    /\ ProtocolOf(enc.out) = "kitty"

-----------------------------------------------------------------------------
(* Marker text that comes from the mail.                                   *)

\* the text the finalizer starts from, after the collapse of newline runs
Collapsed == CollapseNewlines(ForestText(doc))

\* the text with its row markers expanded, as the claim reads them
RowsExpanded == Expanded(Collapsed, RowPlaceholdersAt(Collapsed))

\* the mail's own text holds a marker
MailHolds(prefix) ==
    \E n \in SeqToSet(Flatten(rawBody)) :
        n.tag = "#text" /\ \E i \in 1..Len(n.toks) : n.toks[i] = prefix

\* C32 (as stated, refuted): marker text is treated by what it says, not by
\* where it came from: in the text the finalizer works on, every
\* [[MATCHA_IMG_ROWS:n]] becomes n newlines and every [[MATCHA_QUOTE:n]]
\* becomes the box of record n when n is in range and stays literal when it
\* is not, whether the mail or the renderer wrote the marker.
C32_MarkersResolvedWhateverOrigin ==
    pc = "plainquotes" => text = QuotesResolved(RowsExpanded, quoteData)

\* C32, the part that holds: the same for every text whose quote markers
\* carry an index that fits an integer.
C32_ReadableMarkersResolved ==
    (pc = "plainquotes" /\ \A i \in 1..Len(Collapsed) : Collapsed[i] # HugeNum) =>
        text = QuotesResolved(RowsExpanded, quoteData)

\* C32: a row marker of the mail became two newlines between its words.
C32_MailRowMarkerExpanded ==
    /\ pc = "plainquotes" /\ MailHolds(imageRowPlaceholderPrefix)
    /\ imgLog = <<>> /\ quoteData = <<>>
    /\ \E i \in 1..(Len(text) - 3) :
          /\ text[i] = "w1" /\ text[i + 1] = "\n" /\ text[i + 2] = "\n"
          /\ text[i + 3] = "w2"

\* C32: a quote marker of the mail with index 0 became a second box of the
\* one record.
C32_MailQuoteMarkerBoxed ==
    /\ pc = "plainquotes" /\ MailHolds(QuotePrefix) /\ Len(quoteData) = 1
    /\ Cardinality({i \in 1..Len(text) : text[i] = BoxTop}) = 2
    /\ \A i \in 1..Len(text) : text[i] # QuotePrefix

\* C32: a quote marker of the mail whose index does not fit an integer
\* became a box of record 0.
C32_MailQuoteMarkerOverflow ==
    /\ pc = "plainquotes" /\ Len(quoteData) = 1
    /\ \E i \in 1..Len(Collapsed) : Collapsed[i] = HugeNum
    /\ Cardinality({i \in 1..Len(text) : text[i] = BoxTop}) = 2
    /\ \A i \in 1..Len(text) : text[i] # QuotePrefix

\* C32: marker text inside a blockquote of the mail is in the box as it was
\* written.
C32_MarkerInQuoteKept ==
    /\ pc = "plainquotes" /\ Len(quoteData) = 1
    /\ quoteData[1].content = RowMarker("2")
    /\ \E i \in 1..Len(text) : text[i] = imageRowPlaceholderPrefix

-----------------------------------------------------------------------------
(* The account picker's Esc and the exit confirmation.                     *)

\* Update applied to the keys of ks in turn
RECURSIVE AfterKeys(_, _)
AfterKeys(m, ks) ==
    IF ks = <<>> THEN m ELSE AfterKeys(Update(m, Head(ks), 0).m, Tail(ks))

\* the Up/Down keys pressed while the picker is open
PickerMoves == SeqsUpTo({"up", "down"}, MaxAccounts)

\* Enter on this composer opens the account picker
OpensPicker(m) ==
    ~m.showAccountPicker /\ Update(m, "enter", 0).m.showAccountPicker

\* C33 (as stated, refuted): closing the account picker with Esc cancels the
\* selection: whatever Up/Down keys were pressed while it was open, the
\* selected account after Esc is the one selected when the picker was
\* opened; Enter closes the picker on the account the keys moved to.
C33_EscRestoresSelection ==
    (pc = "composer" /\ OpensPicker(composer)) =>
        \A ks \in PickerMoves :
            LET opened == Update(composer, "enter", 0).m
                moved == AfterKeys(opened, ks)
            IN  /\ moved.showAccountPicker
                /\ ~Update(moved, "esc", 0).m.showAccountPicker
                /\ Update(moved, "esc", 0).m.selectedAccountIdx
                      = composer.selectedAccountIdx
                /\ ~Update(moved, "enter", 0).m.showAccountPicker
                /\ Update(moved, "enter", 0).m.selectedAccountIdx
                      = moved.selectedAccountIdx

\* C33, what the code does: Esc and Enter close the picker alike, on the
\* account the Up/Down keys moved to.
C33_EscKeepsMovedSelection ==
    (pc = "composer" /\ OpensPicker(composer)) =>
        \A ks \in PickerMoves, key \in {"esc", "enter"} :
            LET moved == AfterKeys(Update(composer, "enter", 0).m, ks)
            IN  Update(moved, key, 0).m
                    = [moved EXCEPT !.showAccountPicker = FALSE]

\* C33: the picker was opened on the first of two accounts, Down moved the
\* selection, and Esc would close the picker on the second account.
C33_EscAfterDown ==
    /\ pc = "composer"
    /\ composer.showAccountPicker
    /\ composer.accounts = 2 /\ composer.selectedAccountIdx = 1
    /\ Update(composer, "up", 0).m.selectedAccountIdx = 0
    /\ Update(composer, "esc", 0).m.selectedAccountIdx = 1
    /\ ~Update(composer, "esc", 0).m.showAccountPicker

\* every field of the composer but the exit confirmation
Besides(m) == [m EXCEPT !.confirmingExit = FALSE]

\* what the exit confirmation does with a key, as the claim gives it
ConfirmationAnswers(m, key) ==
    LET r == Update(m, key, 0)
    IN  IF key \in {"y", "Y"} THEN r.m = m /\ r.cmd = "DiscardDraftMsg"
        ELSE IF key \in {"n", "N", "esc"}
        THEN r.m = [m EXCEPT !.confirmingExit = FALSE] /\ r.cmd = "nil"
        ELSE r.m = m /\ r.cmd = "nil"

\* C34 (as stated, refuted): while the exit confirmation is showing, y/Y
\* emits DiscardDraftMsg with the composer as it is, n/N/Esc dismisses the
\* confirmation, and every other key leaves the composer unchanged: no
\* SendEmailMsg, focus change or field edit until it is dismissed.
C34_ConfirmationTakesEveryKey ==
    (pc = "composer" /\ composer.confirmingExit) =>
        \A key \in Keys \cup ConfirmLetters : ConfirmationAnswers(composer, key)

\* C34, the part that holds: the same while no contact suggestions are
\* showing; and, suggestions or not, no key sends the mail, moves the focus
\* or opens the account picker, and y/Y, n/N answer as the claim says.
C34_ConfirmationUnlessSuggestions ==
    (pc = "composer" /\ composer.confirmingExit) =>
        \A key \in Keys \cup ConfirmLetters, found \in 0..MaxContacts :
            LET r == Update(composer, key, found)
            IN  /\ ~(composer.showSuggestions /\ composer.suggestions > 0)
                    => ConfirmationAnswers(composer, key)
                /\ key \in {"y", "Y", "n", "N"} => ConfirmationAnswers(composer, key)
                /\ r.cmd \in {"nil", "DiscardDraftMsg"}
                /\ r.m.focusIndex = composer.focusIndex
                /\ r.m.showAccountPicker = composer.showAccountPicker
                /\ <<r.m.subject, r.m.body, r.m.signature, r.m.attachmentPath,
                    r.m.selectedAccountIdx>>
                     = <<composer.subject, composer.body, composer.signature,
                         composer.attachmentPath, composer.selectedAccountIdx>>

\* C34: the confirmation shows with focus on Send; Enter sends nothing, n
\* dismisses it, Y discards the draft.
C34_ConfirmingOnSend ==
    /\ pc = "composer"
    /\ composer.confirmingExit /\ ~composer.showSuggestions
    /\ composer.focusIndex = focusSend
    /\ Update(composer, "enter", 0) = [m |-> composer, cmd |-> "nil"]
    /\ ~Update(composer, "n", 0).m.confirmingExit
    /\ Update(composer, "Y", 0).cmd = "DiscardDraftMsg"

\* C34: the confirmation shows over contact suggestions; Enter takes the
\* selected contact for To and closes the suggestions, and Esc leaves the
\* confirmation showing.
C34_ConfirmingOverSuggestions ==
    /\ pc = "composer"
    /\ composer.confirmingExit
    /\ composer.showSuggestions /\ composer.suggestions > 0
    /\ Update(composer, "enter", 0).m.to = ContactValue(composer.selectedSuggestion)
    /\ ~Update(composer, "enter", 0).m.showSuggestions
    /\ Update(composer, "esc", 0).m.confirmingExit

-----------------------------------------------------------------------------
(* The highlighted tab of an Inbox.                                        *)

\* the highlighted tab exists and is the tab of the account whose list shows
TabValid(m) ==
    /\ m.activeTabIndex \in 0..(Len(m.tabs) - 1)
    /\ m.currentAccountID = m.tabs[m.activeTabIndex + 1].ID

\* C35 (as stated, refuted): after any sequence of Inbox operations (tab
\* keys, SetEmails, RemoveEmail, EmailsAppendedMsg, EmailsRefreshedMsg),
\* 0 <= activeTabIndex < len(tabs) and currentAccountID is the ID of
\* tabs[activeTabIndex].
C35_ActiveTabValid ==
    pc = "inbox" => TabValid(inbox["inbox"])

\* C35, the part that holds: every message, every RemoveEmail and every
\* SetEmails with the accounts the Inbox already has keeps a valid
\* highlighted tab valid; SetEmails writes neither activeTabIndex nor
\* currentAccountID, whatever accounts it is given.
C35_TabKeptWhileAccountsStay ==
    pc = "inbox" =>
        LET m == inbox["inbox"]
        IN  /\ TabValid(m) =>
                /\ \A msg \in InboxMsgs : TabValid(InboxUpdate(m, msg).m)
                /\ \A uid \in 1..2, acc \in AccountIDs :
                      TabValid(RemoveEmail(m, uid, acc))
                /\ \A emails \in EmailLists : TabValid(SetEmails(m, emails, m.accounts))
            /\ \A emails \in EmailLists, accounts \in AccountLists :
                  LET s == SetEmails(m, emails, accounts)
                  IN  /\ s.activeTabIndex = m.activeTabIndex
                      /\ s.currentAccountID = m.currentAccountID

\* C35: the tab of the second account was highlighted when SetEmails came
\* with one account; the Inbox has one tab and highlights the third.
C35_TabBeyondTabs ==
    /\ pc = "inbox"
    /\ Len(inbox["inbox"].accounts) = 1
    /\ Len(inbox["inbox"].tabs) = 1
    /\ inbox["inbox"].activeTabIndex = 2
    /\ inbox["inbox"].currentAccountID = "b"

-----------------------------------------------------------------------------
(* Pagination: the fetch in flight.                                        *)

\* every message and command in flight is one of the enumerated ones
FetchTraffic ==
    pc = "fetch" => fetch.msgs \subseteq FetchMsgs /\ fetch.running \subseteq FetchCmds

\* C36 (as stated, refuted): once FetchingMoreEmailsMsg has set isFetching,
\* isFetching eventually returns to false, whether the fetch succeeds,
\* returns no emails or fails.
C36_FetchingEventuallyCleared ==
    (pc = "fetch" /\ inbox["inbox"].isFetching)
        ~> (pc = "fetch" /\ ~inbox["inbox"].isFetching)

\* what mainModel.Update makes of a message in flight
Handled(msg) ==
    MainUpdate(inbox["inbox"], fetch.emailsByAcct, msg,
               CHOOSE o \in Orders(DOMAIN MapPut(fetch.emailsByAcct,
                                                 IF msg.type = "EmailsFetchedMsg"
                                                 THEN msg.AccountID ELSE "a", <<>>)) : TRUE)

\* C36, the part that holds: an EmailsAppendedMsg, with emails or without,
\* clears isFetching when it is handled; FetchErr and EmailsFetchedMsg, the
\* other two results of fetchEmails, leave isFetching as it is.
C36_OnlyAppendedClears ==
    pc = "fetch" =>
        \A msg \in fetch.msgs :
            /\ msg.type = "EmailsAppendedMsg" => ~Handled(msg).inbox.isFetching
            /\ msg.type \in {"FetchErr", "EmailsFetchedMsg"} =>
                  Handled(msg).inbox.isFetching = inbox["inbox"].isFetching

\* C36: an empty page came back for a fetch announced before, and handling
\* it clears isFetching.
C36_EmptyPageClears ==
    /\ pc = "fetch" /\ inbox["inbox"].isFetching
    /\ fetch.running = {}
    /\ fetch.msgs = {FetchedMsg("EmailsAppendedMsg", "a", <<>>)}
    /\ ~Handled(FetchedMsg("EmailsAppendedMsg", "a", <<>>)).inbox.isFetching

\* C36: the fetch announced before has failed; FetchErr is all that is in
\* flight, handling it leaves isFetching set and nothing in flight, and from
\* then on no key asks for more emails.
C36_FailureLeavesFetching ==
    /\ pc = "fetch" /\ inbox["inbox"].isFetching
    /\ fetch.running = {} /\ fetch.msgs = {FetchErr}
    /\ Handled(FetchErr).inbox = inbox["inbox"]
    /\ Handled(FetchErr).msgs = {} /\ Handled(FetchErr).running = {}
    /\ \A key \in FetchKeys :
          LET r == MainUpdate(inbox["inbox"], fetch.emailsByAcct, KeyMsgOf(key), <<>>)
          IN  r.msgs = {} /\ r.running = {} /\ r.inbox.isFetching

\* C36: isFetching is set and nothing is in flight that could clear it.
C36_FetchingForGood ==
    /\ pc = "fetch" /\ inbox["inbox"].isFetching
    /\ fetch.running = {} /\ fetch.msgs = {}

-----------------------------------------------------------------------------
(* TrashArchive: whose inbox a background result reaches.                  *)

\* the background results that name the mailbox mb
ResultsFor(mb) ==
    {x \in MailboxMsgs[mb] :
        /\ x.type \in {"EmailsAppendedMsg", "EmailsRefreshedMsg"}
        /\ x.type = "EmailsAppendedMsg" => x.Emails \in EmailsOf(x.AccountID)}
      \cup {[type |-> "RefreshingEmailsMsg", Mailbox |-> mb]}

\* C37 (as stated, refuted): TrashArchive delivers EmailsAppendedMsg,
\* RefreshingEmailsMsg and EmailsRefreshedMsg to the inbox of the mailbox
\* the message names, whichever view is active, and leaves the other inbox
\* and the active view as they are.
C37_DeliveredByMailbox ==
    pc = "trasharchive" =>
        \A mb \in {"trash", "archive"} : \A msg \in ResultsFor(mb) :
            LET r == TrashArchiveUpdate(inbox, activeView, msg)
            IN  /\ r.inbox[mb] = InboxUpdate(inbox[mb], msg).m
                /\ \A k \in DOMAIN inbox \ {mb} : r.inbox[k] = inbox[k]
                /\ r.activeView = activeView

\* C37, what the code does: the message goes to the inbox of the active
\* view; it is applied when it names that mailbox, and changes neither
\* inbox when it names the other one.
C37_DeliveredToActiveView ==
    pc = "trasharchive" =>
        \A mb \in {"trash", "archive"} : \A msg \in ResultsFor(mb) :
            LET r == TrashArchiveUpdate(inbox, activeView, msg)
            IN  /\ r.activeView = activeView /\ r.cmds = <<>>
                /\ r.inbox = IF mb = activeView
                             THEN [inbox EXCEPT ![mb] = InboxUpdate(@, msg).m]
                             ELSE inbox

\* C37: the archive is showing and is being refreshed; the refreshed emails
\* of the trash arrive and the trash inbox keeps the emails it had.
C37_TrashResultLost ==
    /\ pc = "trasharchive" /\ activeView = "archive"
    /\ inbox["trash"].allEmails = <<>>
    /\ LET msg == [type |-> "EmailsRefreshedMsg", Mailbox |-> "trash",
                   EmailsByAccount |-> [k \in {"a"} |-> <<Email(1, "a", 2)>>],
                   order |-> <<"a">>]
       IN  /\ msg \in ResultsFor("trash")
           /\ InboxUpdate(inbox["trash"], msg).m.allEmails = <<Email(1, "a", 2)>>
           /\ TrashArchiveUpdate(inbox, activeView, msg).inbox = inbox

=============================================================================
